---- MODULE Spec2Model ----
(***************************************************************************)
(* Open Floor Protocol agents (src/agents.ts, here src/unnamed/part_002).  *)
(*                                                                         *)
(* The model follows the JavaScript execution of the agent code: an async  *)
(* function runs synchronously up to its first `await`, every `await` of a *)
(* settled promise costs one turn of the microtask queue, and              *)
(* EventTarget.dispatchEvent calls its listeners synchronously and drops   *)
(* whatever they return.  The agent is constructed with a manifest whose   *)
(* speakerUri is URI-shaped, so that building the outbound Sender succeeds.*)
(***************************************************************************)
EXTENDS Integers, Sequences, FiniteSets, TLC

VARIABLES
  _currentContext,      \* BotAgent._currentContext: ContextEvent[]
  _activeConversation,  \* BotAgent._activeConversation: id of the Conversation, or Null
  _hasFloor,            \* BotAgent._hasFloor
  call,                 \* the latest processEnvelope call: its envelopes and promises
  microtasks,           \* the engine's microtask queue (FIFO of pending continuations)
  dispatch,             \* the latest _handleEvent invocation (what it got, what it threw)
  _activeConversants,   \* FloorManager._activeConversants: the keys of the Map
  _currentSpeaker,      \* FloorManager._currentSpeaker: a speakerUri, or Null
  built,                \* the latest call of a ConvenerAgent method and what came of it
  subject,              \* the value a library function is applied to
  outcome               \* what the function made of it

botVars == <<_currentContext, _activeConversation, _hasFloor>>
floorVars == <<_activeConversants, _currentSpeaker>>
pureVars == <<subject, outcome>>
vars ==
  <<_currentContext, _activeConversation, _hasFloor, call, microtasks, dispatch,
    _activeConversants, _currentSpeaker, built, subject, outcome>>

----------------------------------------------------------------------------
(* Bounds *)

\* Most inbound events whose handling is not over, counted over all the
\* processEnvelope calls made so far.
MaxEvents == 2

----------------------------------------------------------------------------
(* Values *)

Null == "null"
Undefined == "undefined"

\* The agent's identity, from its manifest.
speakerUri == "tag:example.com,2025:bot1"
serviceUrl == "https://example.com/bot"

OtherSpeakerUri == "tag:example.com,2025:agent2"

Conversations == {"conv:A", "conv:B"}

\* Event.to is either absent or a To, which holds a speakerUri, a serviceUrl or both.
\* Its private flag is "true", "false" or, as an option that is not given, undefined.
NoTo ==
  [absent |-> TRUE, speakerUri |-> Undefined, serviceUrl |-> Undefined, private |-> Undefined]
PrivateTo(uri, url, private) ==
  [absent |-> FALSE, speakerUri |-> uri, serviceUrl |-> url, private |-> private]
To(uri, url) == PrivateTo(uri, url, Undefined)

allowedEventTypes ==
  {"utterance", "context", "invite", "uninvite", "declineInvite", "bye",
   "getManifests", "publishManifests", "requestFloor", "grantFloor",
   "revokeFloor", "yieldFloor"}

\* Event.parameters: the key it holds, if any, and the dialog events under it.
Parameters(name, dialogEvents) == [name |-> name, dialogEvents |-> dialogEvents]
NoParameters == Parameters("none", <<>>)

\* An event, and the options and the plain object of one.
EventWith(eventType, to, reason, parameters) ==
  [eventType |-> eventType, to |-> to, reason |-> reason, parameters |-> parameters]

Event(eventType, to) == EventWith(eventType, to, Undefined, NoParameters)

NoEvent == Event("none", NoTo)

\* The inbound events the environment sends: every event type without `to`,
\* context events addressed to this agent by speakerUri or by serviceUrl, and
\* context and invite events addressed to another conversant.
InboundEvents ==
  {Event(t, NoTo) : t \in allowedEventTypes}
    \cup {Event("context", To(speakerUri, Undefined)),
          Event("context", To(Undefined, serviceUrl))}
    \cup {Event(t, To(OtherSpeakerUri, Undefined)) : t \in {"context", "invite"}}

\* Errors thrown by the code.
NoError == "none"
ConversationConflict == "Bot is already in a different conversation"
DialogEventIdRequired == "DialogEvent.id is required"
NotAConstructor == "PublishManifestEvent is not a constructor"

\* new Envelope({schema, conversation, sender, events}): the events are kept in the
\* read-only field `events`.  `_events` is no field of an Envelope; it only comes
\* to exist when an agent assigns to it.
Envelope(conversation, sender, events) ==
  [conversation |-> conversation, sender |-> sender, events |-> events, _events |-> <<>>]

InboundEnvelopes(n) ==
  {Envelope(c, OtherSpeakerUri, es) :
     c \in Conversations, es \in UNION {[1..k -> InboundEvents] : k \in 0..n}}

AllInboundEnvelopes == InboundEnvelopes(MaxEvents)

BotState(ctx, conv, floor) ==
  [currentContext |-> ctx, activeConversation |-> conv, hasFloor |-> floor]

bot == BotState(_currentContext, _activeConversation, _hasFloor)

----------------------------------------------------------------------------
(* Event handling of the BotAgent *)

\* OpenFloorAgent.addMetadata: whether an event is addressed to this agent.
addressedToMe(event) ==
  \/ event.to.absent
  \/ event.to.speakerUri = speakerUri
  \/ event.to.serviceUrl = serviceUrl

\* The type guards of events.ts compare the eventType tag.
isInviteEvent(event) == event.eventType = "invite"
isUtteranceEvent(event) == event.eventType = "utterance"
isContextEvent(event) == event.eventType = "context"
isUninviteEvent(event) == event.eventType = "uninvite"
isGrantFloorEvent(event) == event.eventType = "grantFloor"
isRevokeFloorEvent(event) == event.eventType = "revokeFloor"
isGetManifestsEvent(event) == event.eventType = "getManifests"

\* What a call of an async function leaves behind: the agent state and the
\* outbound envelope after its synchronous part, the number of microtask turns
\* until the promise it returned settles, and the error that promise rejects with
\* (NoError: it fulfils).
Settled(state, outEnvelope, error) ==
  [state |-> state, outEnvelope |-> outEnvelope, turns |-> 0, error |-> error]

\* `await p` inside an async function: the function resumes one turn after p
\* settles, and an error of p is thrown on from there.
Await(p) == [p EXCEPT !.turns = @ + 1]

\* new DialogEvent(options): id, speakerUri, span and features are all required.
DialogEvent(hasId, hasSpeakerUri, hasSpan, hasFeatures) ==
  IF ~hasId THEN DialogEventIdRequired
  ELSE IF ~hasSpeakerUri THEN "DialogEvent.speakerUri is required"
  ELSE IF ~hasSpan THEN "DialogEvent.span is required"
  ELSE IF ~hasFeatures THEN "DialogEvent.features is required"
  ELSE NoError

\* events.ts exports PublishManifestsEvent; the name agents.ts imports,
\* PublishManifestEvent, is no export of it, so the binding is undefined and
\* `new PublishManifestEvent(...)` throws a TypeError.
PublishManifestEvent == NotAConstructor

_handleGrantFloor(s, event, inEnvelope, outEnvelope) ==
  Settled([s EXCEPT !.hasFloor = TRUE], outEnvelope, NoError)

_handleRevokeFloor_leavingConversation(s, event, inEnvelope, outEnvelope) ==
  Settled([s EXCEPT !.hasFloor = FALSE, !.activeConversation = Null], outEnvelope, NoError)

_handleRevokeFloor(s, event, inEnvelope, outEnvelope) ==
  Settled([s EXCEPT !.hasFloor = FALSE], outEnvelope, NoError)

_handleInvite_withoutGrant(s, event, inEnvelope, outEnvelope) ==
  Await(Settled([s EXCEPT !.activeConversation = inEnvelope.conversation], outEnvelope,
                NoError))

_handleInvite(s, event, inEnvelope, outEnvelope) ==
  Await(_handleGrantFloor([s EXCEPT !.activeConversation = inEnvelope.conversation],
                          Event("grantFloor", NoTo), inEnvelope, outEnvelope))

\* The response is built from {speakerUri, features}, without id and span; the
\* assignment to outEnvelope._events comes after the construction.
_handleUtterance(s, event, inEnvelope, outEnvelope) ==
  LET thrown == DialogEvent(FALSE, TRUE, FALSE, TRUE)
      responseEvent == Event("utterance", NoTo)
  IN  IF thrown # NoError
        THEN Settled(s, outEnvelope, thrown)
        ELSE Settled(s, [outEnvelope EXCEPT !._events = Append(outEnvelope.events, responseEvent)],
                     NoError)

_handleContext(s, event, inEnvelope, outEnvelope) ==
  Settled([s EXCEPT !.currentContext = Append(@, event)], outEnvelope, NoError)

_handleUninvite_keepingFloor(s, event, inEnvelope, outEnvelope) ==
  Settled([s EXCEPT !.activeConversation = Null], outEnvelope, NoError)

_handleUninvite(s, event, inEnvelope, outEnvelope) ==
  Settled([s EXCEPT !.activeConversation = Null, !.hasFloor = FALSE], outEnvelope, NoError)

_handleGetManifests(s, event, inEnvelope, outEnvelope) ==
  LET thrown == PublishManifestEvent
      responseEvent == Event("publishManifests", NoTo)
  IN  IF thrown # NoError
        THEN Settled(s, outEnvelope, thrown)
        ELSE Settled(s, [outEnvelope EXCEPT !._events = Append(outEnvelope.events, responseEvent)],
                     NoError)

_handleEvent_byeLeaves(s, event, inEnvelope, outEnvelope) ==
  IF isInviteEvent(event) THEN Await(_handleInvite(s, event, inEnvelope, outEnvelope))
  ELSE IF isUtteranceEvent(event) THEN Await(_handleUtterance(s, event, inEnvelope, outEnvelope))
  ELSE IF isContextEvent(event) THEN Await(_handleContext(s, event, inEnvelope, outEnvelope))
  ELSE IF isUninviteEvent(event) \/ event.eventType = "bye"
    THEN Await(_handleUninvite(s, event, inEnvelope, outEnvelope))
  ELSE IF isGrantFloorEvent(event) THEN Await(_handleGrantFloor(s, event, inEnvelope, outEnvelope))
  ELSE IF isRevokeFloorEvent(event) THEN Await(_handleRevokeFloor(s, event, inEnvelope, outEnvelope))
  ELSE IF isGetManifestsEvent(event) THEN Await(_handleGetManifests(s, event, inEnvelope, outEnvelope))
  ELSE Settled(s, outEnvelope, NoError)

_handleEvent(s, event, inEnvelope, outEnvelope) ==
  IF isInviteEvent(event) THEN Await(_handleInvite(s, event, inEnvelope, outEnvelope))
  ELSE IF isUtteranceEvent(event) THEN Await(_handleUtterance(s, event, inEnvelope, outEnvelope))
  ELSE IF isContextEvent(event) THEN Await(_handleContext(s, event, inEnvelope, outEnvelope))
  ELSE IF isUninviteEvent(event) THEN Await(_handleUninvite(s, event, inEnvelope, outEnvelope))
  ELSE IF isGrantFloorEvent(event) THEN Await(_handleGrantFloor(s, event, inEnvelope, outEnvelope))
  ELSE IF isRevokeFloorEvent(event) THEN Await(_handleRevokeFloor(s, event, inEnvelope, outEnvelope))
  ELSE IF isGetManifestsEvent(event) THEN Await(_handleGetManifests(s, event, inEnvelope, outEnvelope))
  ELSE Settled(s, outEnvelope, NoError)

\* The conflict check of _handleEnvelope.
conflict(s, inEnvelope) ==
  /\ s.activeConversation # Null
  /\ s.activeConversation # inEnvelope.conversation

\* const myEvents = eventsWithMetadata.filter(([, metadata]) => metadata.addressedToMe)
myEvents(inEnvelope) == SelectSeq(inEnvelope.events, addressedToMe)

\* One turn of the loop `for (const [eventObj] of myEvents) await this._handleEvent(...)`:
\* either the loop is over and _handleEnvelope returns, or the next event is
\* dispatched and _handleEnvelope waits for _handleEvent.
loop(s, inEnvelope, outEnvelope, next) ==
  IF next > Len(myEvents(inEnvelope))
    THEN [state |-> s, outEnvelope |-> outEnvelope, turns |-> 0, error |-> NoError,
          returned |-> TRUE, event |-> NoEvent, before |-> s]
    ELSE LET eventObj == myEvents(inEnvelope)[next]
             p == Await(_handleEvent(s, eventObj, inEnvelope, outEnvelope))
         IN  [state |-> p.state, outEnvelope |-> p.outEnvelope, turns |-> p.turns,
              error |-> p.error, returned |-> FALSE, event |-> eventObj, before |-> s]

\* The synchronous part of BotAgent._handleEnvelope: from its entry to its first
\* `await`, or to its end when it throws or has no event to dispatch.
_handleEnvelope(s, inEnvelope, outEnvelope) ==
  LET cleared == [s EXCEPT !.currentContext = <<>>]
  IN  IF conflict(cleared, inEnvelope)
        THEN [state |-> cleared, outEnvelope |-> outEnvelope, turns |-> 0,
              error |-> ConversationConflict, returned |-> TRUE, event |-> NoEvent,
              before |-> cleared]
        ELSE loop(cleared, inEnvelope, outEnvelope, 1)

----------------------------------------------------------------------------
(* The microtask queue *)

\* A pending continuation.  "_handleEnvelope": the listener's loop waits for the
\* _handleEvent call of event next-1 (`turns` more turns; `error` is what that call
\* throws); `current` tells whether it works for the latest processEnvelope call.
\* "processEnvelope": the continuation after `await this.dispatchAgentEvent(...)`.
\* "caller": the continuation of the host's `await agent.processEnvelope(...)`.
Job(job, current, inEnvelope, outEnvelope, next, turns, error) ==
  [job |-> job, current |-> current, inEnvelope |-> inEnvelope, outEnvelope |-> outEnvelope,
   next |-> next, turns |-> turns, error |-> error]

NoEnvelope == Envelope(Null, Null, <<>>)

Continuation(job) == Job(job, TRUE, NoEnvelope, NoEnvelope, 0, 1, NoError)

\* Events of live listeners whose handling is not over: the one each listener
\* waits for and those it has yet to dispatch.
RECURSIVE Unhandled(_)
Unhandled(q) ==
  IF q = <<>> THEN 0
  ELSE LET j == Head(q)
       IN  (IF j.job = "_handleEnvelope"
              THEN Len(myEvents(j.inEnvelope)) - j.next + 2
            ELSE IF j.job = "FloorManager._handleEnvelope"
              THEN Len(j.inEnvelope.events) - j.next + 2
              ELSE 0) + Unhandled(Tail(q))

\* A listener of an earlier call no longer works for the latest call.  Nothing
\* reads the events it has dispatched again: only those it has yet to dispatch are
\* kept.
Superseded(q) ==
  [i \in 1..Len(q) |->
     IF q[i].job = "_handleEnvelope"
       THEN [q[i] EXCEPT !.current = FALSE, !.next = 1,
                         !.inEnvelope.events =
                            SubSeq(myEvents(q[i].inEnvelope), q[i].next,
                                   Len(myEvents(q[i].inEnvelope)))]
     ELSE IF q[i].job = "FloorManager._handleEnvelope"
       THEN [q[i] EXCEPT !.current = FALSE, !.next = 1,
                         !.inEnvelope.events =
                            SubSeq(q[i].inEnvelope.events, q[i].next,
                                   Len(q[i].inEnvelope.events))]
       ELSE q[i]]

PromiseOf(h) ==
  IF ~h.returned THEN "pending" ELSE IF h.error = NoError THEN "fulfilled" ELSE "rejected"

NoSnapshot == [state |-> BotState(<<>>, Null, FALSE), events |-> <<>>, handler |-> "none"]

\* No ConvenerAgent method has been called in the latest step.
NoBuilt ==
  [method |-> "none", speakerUri |-> Undefined, serviceUrl |-> Undefined,
   event |-> NoEvent, error |-> NoError, before |-> BotState(<<>>, Null, FALSE)]

NoCall ==
  [promise |-> "none", returned |-> FALSE, inEnvelope |-> NoEnvelope,
   outEnvelope |-> NoEnvelope, handler |-> "none", error |-> NoError,
   handled |-> <<>>, start |-> BotState(<<>>, Null, FALSE), seen |-> NoSnapshot]

\* What the latest step gave to _handleEvent, if it called it: the event, the
\* conversation of its envelope, the agent state at the call and the error thrown.
NoDispatch ==
  [event |-> NoEvent, conversation |-> Null, sender |-> Null,
   before |-> BotState(<<>>, Null, FALSE), outBefore |-> NoEnvelope, outAfter |-> NoEnvelope, error |-> NoError]

Dispatched(h, inEnvelope, outEnvelope) ==
  IF h.event = NoEvent THEN NoDispatch
  ELSE [event |-> h.event, conversation |-> inEnvelope.conversation,
        sender |-> inEnvelope.sender, before |-> h.before, outBefore |-> outEnvelope, outAfter |-> h.outEnvelope, error |-> h.error]

----------------------------------------------------------------------------
(* Actions *)

Init ==
  /\ _currentContext = <<>>
  /\ _activeConversation = Null
  /\ _hasFloor = FALSE
  /\ call = NoCall
  /\ microtasks = <<>>
  /\ dispatch = NoDispatch
  /\ _activeConversants = {}
  /\ _currentSpeaker = Null
  /\ built = NoBuilt
  /\ subject = Null
  /\ outcome = Null

\* The host calls processEnvelope(inEnvelope); it holds no promise of an earlier
\* call by then, because it awaits each call.  The call runs synchronously to its `await`: it builds the
\* outbound envelope and dispatches agent:onEnvelope; dispatchEvent runs the
\* listener _handleEnvelope to its first `await` and drops the promise it returns.
processEnvelope(inEnvelope) ==
  /\ call.promise = "none"
  /\ Len(inEnvelope.events) + Unhandled(microtasks) <= MaxEvents
  /\ LET outEnvelope == Envelope(inEnvelope.conversation, speakerUri, <<>>)
         h == _handleEnvelope(bot, inEnvelope, outEnvelope)
     IN  /\ _currentContext' = h.state.currentContext
         /\ _activeConversation' = h.state.activeConversation
         /\ _hasFloor' = h.state.hasFloor
         /\ call' = [promise |-> "pending", returned |-> FALSE, inEnvelope |-> inEnvelope,
                     outEnvelope |-> h.outEnvelope, handler |-> PromiseOf(h),
                     error |-> IF h.returned THEN h.error ELSE NoError,
                     handled |-> IF h.event = NoEvent THEN <<>> ELSE <<h.event>>,
                     start |-> [bot EXCEPT !.currentContext = <<>>],
                     seen |-> NoSnapshot]
         /\ microtasks' =
              microtasks
                \o (IF h.returned THEN <<>>
                    ELSE <<Job("_handleEnvelope", TRUE, inEnvelope, h.outEnvelope, 2,
                               h.turns, h.error)>>)
                \o <<Continuation("processEnvelope")>>
         /\ dispatch' = Dispatched(h, inEnvelope, outEnvelope)
         /\ built' = NoBuilt
         /\ UNCHANGED <<floorVars, pureVars>>

\* A turn in which an async handler below _handleEnvelope settles its promise.
SettleHandler ==
  /\ microtasks # <<>>
  /\ Head(microtasks).job = "_handleEnvelope"
  /\ Head(microtasks).turns > 1
  /\ microtasks' = Append(Tail(microtasks), [Head(microtasks) EXCEPT !.turns = @ - 1])
  /\ dispatch' = NoDispatch
  /\ built' = NoBuilt
  /\ UNCHANGED <<botVars, call, floorVars, pureVars>>

\* A turn in which _handleEnvelope resumes with an error of _handleEvent: it
\* throws, and the promise nobody holds rejects.
ThrowFromHandleEnvelope ==
  /\ microtasks # <<>>
  /\ Head(microtasks).job = "_handleEnvelope"
  /\ Head(microtasks).turns = 1
  /\ Head(microtasks).error # NoError
  /\ microtasks' = Tail(microtasks)
  /\ call' = IF Head(microtasks).current
               THEN [call EXCEPT !.handler = "rejected", !.error = Head(microtasks).error]
               ELSE call
  /\ dispatch' = NoDispatch
  /\ built' = NoBuilt
  /\ UNCHANGED <<botVars, floorVars, pureVars>>

\* A turn in which _handleEnvelope resumes and goes round its loop.
ResumeHandleEnvelope ==
  /\ microtasks # <<>>
  /\ Head(microtasks).job = "_handleEnvelope"
  /\ Head(microtasks).turns = 1
  /\ Head(microtasks).error = NoError
  /\ LET j == Head(microtasks)
         h == loop(bot, j.inEnvelope, j.outEnvelope, j.next)
     IN  /\ _currentContext' = h.state.currentContext
         /\ _activeConversation' = h.state.activeConversation
         /\ _hasFloor' = h.state.hasFloor
         /\ microtasks' =
              Tail(microtasks)
                \o (IF h.returned THEN <<>>
                    ELSE <<Job("_handleEnvelope", j.current, j.inEnvelope, h.outEnvelope,
                               j.next + 1, h.turns, h.error)>>)
         /\ call' = IF j.current
                      THEN [call EXCEPT !.handler = PromiseOf(h),
                                        !.outEnvelope = h.outEnvelope,
                                        !.handled = IF h.event = NoEvent THEN @
                                                    ELSE Append(@, h.event)]
                      ELSE call
         /\ dispatch' = Dispatched(h, j.inEnvelope, j.outEnvelope)
         /\ built' = NoBuilt
         /\ UNCHANGED <<floorVars, pureVars>>

\* A turn in which processEnvelope resumes after its `await` and returns
\* outEnvelope: its promise fulfils.
ResumeProcessEnvelope ==
  /\ microtasks # <<>>
  /\ Head(microtasks).job = "processEnvelope"
  /\ call' = [call EXCEPT !.promise = "fulfilled"]
  /\ microtasks' = Append(Tail(microtasks), Continuation("caller"))
  /\ dispatch' = NoDispatch
  /\ built' = NoBuilt
  /\ UNCHANGED <<botVars, floorVars, pureVars>>

\* A turn in which the host resumes with the envelope processEnvelope returned.
ResumeCaller ==
  /\ microtasks # <<>>
  /\ Head(microtasks).job = "caller"
  /\ call' = [call EXCEPT !.returned = TRUE,
                          !.seen = [state |-> bot, events |-> call.outEnvelope.events,
                                    handler |-> call.handler]]
  /\ microtasks' = Tail(microtasks)
  /\ dispatch' = NoDispatch
  /\ built' = NoBuilt
  /\ UNCHANGED <<botVars, floorVars, pureVars>>

\* The host is done with the envelope it got from its call.  A listener of that
\* call that is still in its loop goes on.
Release ==
  /\ call.returned
  /\ call' = NoCall
  /\ microtasks' = Superseded(microtasks)
  /\ dispatch' = NoDispatch
  /\ built' = NoBuilt
  /\ UNCHANGED <<botVars, floorVars, pureVars>>

Next ==
  \/ \E inEnvelope \in AllInboundEnvelopes : processEnvelope(inEnvelope)
  \/ Release
  \/ SettleHandler
  \/ ThrowFromHandleEnvelope
  \/ ResumeHandleEnvelope
  \/ ResumeProcessEnvelope
  \/ ResumeCaller

Spec == Init /\ [][Next]_vars

----------------------------------------------------------------------------
(* The FloorManager *)

ThirdSpeakerUri == "tag:example.com,2025:agent3"

\* The conversants that send envelopes to the floor manager.
Senders == {OtherSpeakerUri, ThirdSpeakerUri}

\* The events the conversants send to the floor manager: bye, requestFloor and
\* utterance events to all, and requestFloor, utterance, grantFloor and revokeFloor
\* events addressed to one conversant.
FloorInboundEvents ==
  {Event(t, NoTo) : t \in {"bye", "requestFloor", "utterance"}}
    \cup {Event(t, To(OtherSpeakerUri, Undefined)) :
            t \in {"requestFloor", "utterance", "grantFloor", "revokeFloor"}}

FloorInboundEnvelopes(n) ==
  {Envelope("conv:A", sender, es) :
     sender \in Senders, es \in UNION {[1..k -> FloorInboundEvents] : k \in 0..n}}

AllFloorInboundEnvelopes == FloorInboundEnvelopes(MaxEvents)

FloorState(conversants, speaker) ==
  [activeConversants |-> conversants, currentSpeaker |-> speaker]

floor == FloorState(_activeConversants, _currentSpeaker)

isByeEvent(event) == event.eventType = "bye"
isRequestFloorEvent(event) == event.eventType = "requestFloor"

\* new GrantFloorEvent({to}): an Event with the tag grantFloor.
GrantFloorEvent(to) == Event("grantFloor", to)

\* FloorManager._forwardEvent, with every assignment going to the field `events`.
_forwardEvent_intoEvents(f, event, inEnvelope, outEnvelope) ==
  LET senderUri == inEnvelope.sender
      grantEvent == GrantFloorEvent(To(inEnvelope.sender, Undefined))
      state ==
        IF isByeEvent(event)
          THEN FloorState(f.activeConversants \ {senderUri},
                          IF f.currentSpeaker = senderUri THEN Null ELSE f.currentSpeaker)
        ELSE IF isRequestFloorEvent(event)
          THEN [f EXCEPT !.currentSpeaker = inEnvelope.sender]
          ELSE f
      granted ==
        IF ~isByeEvent(event) /\ isRequestFloorEvent(event)
          THEN [outEnvelope EXCEPT !.events = Append(outEnvelope.events, grantEvent)]
          ELSE outEnvelope
  IN  [state |-> state,
       outEnvelope |-> [granted EXCEPT !.events = Append(granted.events, event)]]

\* FloorManager._forwardEvent, with a bye event leaving currentSpeaker alone.
_forwardEvent_byeKeepsSpeaker(f, event, inEnvelope, outEnvelope) ==
  LET senderUri == inEnvelope.sender
      grantEvent == GrantFloorEvent(To(inEnvelope.sender, Undefined))
      state ==
        IF isByeEvent(event)
          THEN FloorState(f.activeConversants \ {senderUri}, f.currentSpeaker)
        ELSE IF isRequestFloorEvent(event)
          THEN [f EXCEPT !.currentSpeaker = inEnvelope.sender]
          ELSE f
      granted ==
        IF ~isByeEvent(event) /\ isRequestFloorEvent(event)
          THEN [outEnvelope EXCEPT !._events = Append(outEnvelope.events, grantEvent)]
          ELSE outEnvelope
  IN  [state |-> state,
       outEnvelope |-> [granted EXCEPT !._events = Append(granted.events, event)]]

\* FloorManager._forwardEvent.  Both assignments go to outEnvelope._events, and
\* both read outEnvelope.events, the field the Envelope constructor filled.
_forwardEvent(f, event, inEnvelope, outEnvelope) ==
  LET senderUri == inEnvelope.sender
      grantEvent == GrantFloorEvent(To(inEnvelope.sender, Undefined))
      state ==
        IF isByeEvent(event)
          THEN FloorState(f.activeConversants \ {senderUri},
                          IF f.currentSpeaker = senderUri THEN Null ELSE f.currentSpeaker)
        ELSE IF isRequestFloorEvent(event)
          THEN [f EXCEPT !.currentSpeaker = inEnvelope.sender]
          ELSE f
      granted ==
        IF ~isByeEvent(event) /\ isRequestFloorEvent(event)
          THEN [outEnvelope EXCEPT !._events = Append(outEnvelope.events, grantEvent)]
          ELSE outEnvelope
  IN  [state |-> state,
       outEnvelope |-> [granted EXCEPT !._events = Append(granted.events, event)]]

\* One turn of the loop `for (const eventObj of inEnvelope.events) await
\* this._forwardEvent(...)`: the loop is over, or the next event is forwarded and
\* _handleEnvelope waits for the promise of _forwardEvent, which is settled.
forwardLoop(f, inEnvelope, outEnvelope, next) ==
  IF next > Len(inEnvelope.events)
    THEN [state |-> f, outEnvelope |-> outEnvelope, returned |-> TRUE, event |-> NoEvent,
          before |-> f]
    ELSE LET r == _forwardEvent(f, inEnvelope.events[next], inEnvelope, outEnvelope)
         IN  [state |-> r.state, outEnvelope |-> r.outEnvelope, returned |-> FALSE,
              event |-> inEnvelope.events[next], before |-> f]

\* What the latest step gave to _forwardEvent, if it called it: the event, the
\* conversation and the sender of its envelope, the registry at the call and the
\* outbound envelope before and after.
Forwarded(h, inEnvelope, outEnvelope) ==
  IF h.event = NoEvent THEN NoDispatch
  ELSE [NoDispatch EXCEPT !.event = h.event, !.conversation = inEnvelope.conversation,
                          !.sender = inEnvelope.sender, !.before = h.before,
                          !.outBefore = outEnvelope,
                          !.outAfter = h.outEnvelope]

\* processEnvelope of a FloorManager: the listener is FloorManager._handleEnvelope.
FloorManager_processEnvelope(inEnvelope) ==
  /\ call.promise = "none"
  /\ Len(inEnvelope.events) + Unhandled(microtasks) <= MaxEvents
  /\ LET outEnvelope == Envelope(inEnvelope.conversation, speakerUri, <<>>)
         h == forwardLoop(floor, inEnvelope, outEnvelope, 1)
     IN  /\ _activeConversants' = h.state.activeConversants
         /\ _currentSpeaker' = h.state.currentSpeaker
         /\ call' = [NoCall EXCEPT !.promise = "pending", !.inEnvelope = inEnvelope,
                                   !.outEnvelope = h.outEnvelope,
                                   !.handler = IF h.returned THEN "fulfilled" ELSE "pending",
                                   !.handled = IF h.event = NoEvent THEN <<>> ELSE <<h.event>>]
         /\ microtasks' =
              microtasks
                \o (IF h.returned THEN <<>>
                    ELSE <<Job("FloorManager._handleEnvelope", TRUE, inEnvelope,
                               h.outEnvelope, 2, 1, NoError)>>)
                \o <<Continuation("processEnvelope")>>
         /\ dispatch' = Forwarded(h, inEnvelope, outEnvelope)
  /\ UNCHANGED <<botVars, built, pureVars>>

\* A turn in which FloorManager._handleEnvelope resumes and goes round its loop.
FloorManager_ResumeHandleEnvelope ==
  /\ microtasks # <<>>
  /\ Head(microtasks).job = "FloorManager._handleEnvelope"
  /\ LET j == Head(microtasks)
         h == forwardLoop(floor, j.inEnvelope, j.outEnvelope, j.next)
     IN  /\ _activeConversants' = h.state.activeConversants
         /\ _currentSpeaker' = h.state.currentSpeaker
         /\ microtasks' =
              Tail(microtasks)
                \o (IF h.returned THEN <<>>
                    ELSE <<Job("FloorManager._handleEnvelope", j.current, j.inEnvelope,
                               h.outEnvelope, j.next + 1, 1, NoError)>>)
         /\ call' = IF j.current
                      THEN [call EXCEPT !.handler = IF h.returned THEN "fulfilled" ELSE "pending",
                                        !.outEnvelope = h.outEnvelope,
                                        !.handled = IF h.event = NoEvent THEN @
                                                    ELSE Append(@, h.event)]
                      ELSE call
         /\ dispatch' = Forwarded(h, j.inEnvelope, j.outEnvelope)
  /\ UNCHANGED <<botVars, built, pureVars>>

\* addConversant(manifest): the Map gets an entry under manifest.identification.speakerUri.
addConversant(manifestSpeakerUri) ==
  /\ _activeConversants' = _activeConversants \cup {manifestSpeakerUri}
  /\ dispatch' = NoDispatch
  /\ UNCHANGED <<botVars, _currentSpeaker, call, microtasks, built, pureVars>>

removeConversant(uri) ==
  /\ _activeConversants' = _activeConversants \ {uri}
  /\ _currentSpeaker' = IF _currentSpeaker = uri THEN Null ELSE _currentSpeaker
  /\ dispatch' = NoDispatch
  /\ UNCHANGED <<botVars, call, microtasks, built, pureVars>>

FloorNext ==
  \/ \E inEnvelope \in AllFloorInboundEnvelopes : FloorManager_processEnvelope(inEnvelope)
  \/ FloorManager_ResumeHandleEnvelope
  \/ ResumeProcessEnvelope
  \/ ResumeCaller
  \/ Release
  \/ \E uri \in Senders : addConversant(uri)
  \/ \E uri \in Senders : removeConversant(uri)

FloorSpec == Init /\ [][FloorNext]_vars

----------------------------------------------------------------------------
(* The ConvenerAgent: a BotAgent with four methods that build events *)

\* What the host passes as the target of an event: the speakerUri of a
\* conversant, or the empty string.
Targets == {OtherSpeakerUri, ""}

ServiceUrls == {"https://example.com/agent2", ""}

\* `!x` of JavaScript for a string that may be undefined.
Falsy(x) == x \in {Undefined, ""}

ToRequiresTarget == "To requires at least speakerUri or serviceUrl"

\* new XEvent({to: {speakerUri, serviceUrl}}): the Event constructor builds
\* new To(to), which throws when it gets neither a speakerUri nor a serviceUrl.
NewEvent(eventType, uri, url) ==
  IF Falsy(uri) /\ Falsy(url)
    THEN [event |-> NoEvent, error |-> ToRequiresTarget]
    ELSE [event |-> Event(eventType, To(uri, url)), error |-> NoError]

\* What a call of a ConvenerAgent method leaves behind: its arguments, the event it
\* returned or the error it threw, and the agent state at the call.
Built(method, eventType, uri, url) ==
  [method |-> method, speakerUri |-> uri, serviceUrl |-> url,
   event |-> NewEvent(eventType, uri, url).event,
   error |-> NewEvent(eventType, uri, url).error, before |-> bot]

\* ConvenerAgent.grantFloor, with the convener giving up its own floor.
grantFloor_yieldingFloor(target) ==
  /\ call.promise = "none"
  /\ built' = Built("grantFloor", "grantFloor", target, Undefined)
  /\ _hasFloor' = FALSE
  /\ dispatch' = NoDispatch
  /\ UNCHANGED <<_currentContext, _activeConversation, call, microtasks, floorVars, pureVars>>

\* The host calls the methods between its processEnvelope calls.
grantFloor(target) ==
  /\ call.promise = "none"
  /\ built' = Built("grantFloor", "grantFloor", target, Undefined)
  /\ dispatch' = NoDispatch
  /\ UNCHANGED <<botVars, call, microtasks, floorVars, pureVars>>

revokeFloor(target) ==
  /\ call.promise = "none"
  /\ built' = Built("revokeFloor", "revokeFloor", target, Undefined)
  /\ dispatch' = NoDispatch
  /\ UNCHANGED <<botVars, call, microtasks, floorVars, pureVars>>

uninviteAgent(target) ==
  /\ call.promise = "none"
  /\ built' = Built("uninviteAgent", "uninvite", target, Undefined)
  /\ dispatch' = NoDispatch
  /\ UNCHANGED <<botVars, call, microtasks, floorVars, pureVars>>

\* inviteAgent(serviceUrl, speakerUri?): speakerUri is Undefined when not given.
inviteAgent(url, uri) ==
  /\ call.promise = "none"
  /\ built' = Built("inviteAgent", "invite", uri, url)
  /\ dispatch' = NoDispatch
  /\ UNCHANGED <<botVars, call, microtasks, floorVars, pureVars>>

ConvenerNext ==
  \/ Next
  \/ \E target \in Targets : grantFloor(target)
  \/ \E target \in Targets : revokeFloor(target)
  \/ \E target \in Targets : uninviteAgent(target)
  \/ \E url \in ServiceUrls, uri \in {OtherSpeakerUri, Undefined} : inviteAgent(url, uri)

ConvenerSpec == Init /\ [][ConvenerNext]_vars

----------------------------------------------------------------------------
(* Value objects: Span, Token, Feature, DialogEvent (dialog-event.ts) *)

\* A JavaScript value held by a field of a span: undefined, a Date, a number, the
\* text Date.toISOString gives, or the text of an ISO 8601 duration.  The duration
\* text is kept as its parts, each a number (or NaN) followed by a designator.
JS(type, n, parts) == [type |-> type, n |-> n, parts |-> parts]
Absent == JS("undefined", 0, <<>>)
Date(ms) == JS("Date", ms, <<>>)
Number(n) == JS("number", n, <<>>)
DateTimeText(ms) == JS("dateTimeText", ms, <<>>)
DurationText(parts) == JS("durationText", 0, parts)
Part(n, unit) == [n |-> n, nan |-> FALSE, unit |-> unit]
NaNPart(unit) == [n |-> 0, nan |-> TRUE, unit |-> unit]

IsString(x) == x.type \in {"dateTimeText", "durationText"}

\* What a call returns or throws.
Return(value) == [error |-> NoError, value |-> value]
Throw(error) == [error |-> error, value |-> Absent]

\* A call whose result goes into what follows: an error it throws is thrown on.
OnValue(result, Following(_)) ==
  IF result.error # NoError THEN Throw(result.error) ELSE Following(result.value)

InvalidDuration == "Invalid ISO 8601 duration"
NotAFunction == "this.startTime.toISOString is not a function"
SpanBothStart == "Span: both startTime and startOffset"
SpanBothEnd == "Span: both endTime and endOffset"
InvalidTime == "Invalid time value"

\* millisecondsToIsoDuration(milliseconds).  Whole seconds only: Math.floor drops
\* the rest.  Of a string, milliseconds / 1000 is NaN, and the text is "PTNaNS".
millisecondsToIsoDuration(milliseconds) ==
  IF milliseconds.type # "number" THEN DurationText(<<NaNPart("S")>>)
  ELSE LET totalSeconds == milliseconds.n \div 1000
           hours == totalSeconds \div 3600
           minutes == (totalSeconds % 3600) \div 60
           seconds == totalSeconds % 60
           hm == (IF hours > 0 THEN <<Part(hours, "H")>> ELSE <<>>)
                   \o (IF minutes > 0 THEN <<Part(minutes, "M")>> ELSE <<>>)
       IN  DurationText(hm \o (IF seconds > 0 \/ hm = <<>>
                                 THEN <<Part(seconds, "S")>> ELSE <<>>))

\* The number the regular expression of parseIsoDuration captures for a designator
\* ('0' when the designator is absent).
Captured(parts, unit) ==
  IF \E i \in 1..Len(parts) : parts[i].unit = unit
    THEN parts[CHOOSE i \in 1..Len(parts) : parts[i].unit = unit].n
    ELSE 0

\* Whether a text matches /^P(?:(\d+)D)?(?:T(?:(\d+)H)?(?:(\d+)M)?(?:(\d+(?:\.\d+)?)S)?)?$/.
MatchesDuration(text) ==
  /\ text.type = "durationText"
  /\ \A i \in 1..Len(text.parts) : ~text.parts[i].nan
  /\ \E order \in SUBSET {1, 2, 3, 4} :
        /\ Len(text.parts) = Cardinality(order)
        /\ \A i \in 1..Len(text.parts) :
             /\ text.parts[i].unit = <<"D", "H", "M", "S">>[
                   CHOOSE k \in order : Cardinality({l \in order : l < k}) = i - 1]

\* parseIsoDuration(duration).
parseIsoDuration(duration) ==
  IF ~MatchesDuration(duration) THEN Throw(InvalidDuration)
  ELSE LET days == Captured(duration.parts, "D")
           hours == Captured(duration.parts, "H")
           minutes == Captured(duration.parts, "M")
           seconds == Captured(duration.parts, "S")
       IN  Return(Number(((days * 24 + hours) * 60 + minutes) * 60000 + seconds * 1000))

\* The fields of a Span, and of the plain object that renders it.
SpanFields(startTime, startOffset, endTime, endOffset) ==
  [startTime |-> startTime, startOffset |-> startOffset, endTime |-> endTime,
   endOffset |-> endOffset]

NoSpan == SpanFields(Absent, Absent, Absent, Absent)

\* The time at which a Span without a start is constructed.
Now == Date(5000)

\* A constructor that stores the options without its checks.
Span_unchecked(options) ==
  Return(SpanFields(IF options.startTime = Absent /\ options.startOffset = Absent
                      THEN Now ELSE options.startTime,
                    options.startOffset, options.endTime, options.endOffset))

\* new Span(options).  The constructor stores what it is given, whatever its type.
Span(options) ==
  LET startTime == IF options.startTime = Absent /\ options.startOffset = Absent
                     THEN Now ELSE options.startTime
      this == SpanFields(startTime, options.startOffset, options.endTime, options.endOffset)
  IN  IF this.startTime # Absent /\ this.startOffset # Absent THEN Throw(SpanBothStart)
      ELSE IF this.endTime # Absent /\ this.endOffset # Absent THEN Throw(SpanBothEnd)
      ELSE Return(this)

\* Span.toObject(): startTime.toISOString() and millisecondsToIsoDuration(startOffset).
Span_toObject(this) ==
  IF \/ this.startTime # Absent /\ this.startTime.type # "Date"
     \/ this.endTime # Absent /\ this.endTime.type # "Date"
    THEN Throw(NotAFunction)
  ELSE IF this.startTime.parts # <<>> \/ this.endTime.parts # <<>>
    THEN Throw(InvalidTime)
    ELSE Return(SpanFields(
           IF this.startTime # Absent THEN DateTimeText(this.startTime.n) ELSE Absent,
           IF this.startOffset # Absent THEN millisecondsToIsoDuration(this.startOffset)
                                        ELSE Absent,
           IF this.endTime # Absent THEN DateTimeText(this.endTime.n) ELSE Absent,
           IF this.endOffset # Absent THEN millisecondsToIsoDuration(this.endOffset)
                                      ELSE Absent))

\* The conversions of Span.fromObject: new Date(text) of a string, the Date
\* itself, nothing otherwise; parseIsoDuration(text) of a string, the number itself.
TimeOf(x) ==
  IF x.type = "dateTimeText" THEN Return(Date(x.n))
  ELSE IF x.type = "durationText" THEN Return(JS("Date", 0, <<NaNPart("ms")>>))
  ELSE IF x.type = "Date" THEN Return(x)
  ELSE Return(Absent)

OffsetOf(x) ==
  IF IsString(x) THEN parseIsoDuration(x)
  ELSE IF x.type = "number" THEN Return(x)
  ELSE Return(Absent)

\* Span.fromObject(data).
Span_fromObject(data) ==
  OnValue(OffsetOf(data.startOffset), LAMBDA startOffset :
    OnValue(OffsetOf(data.endOffset), LAMBDA endOffset :
      Span(SpanFields(TimeOf(data.startTime).value, startOffset,
                      TimeOf(data.endTime).value, endOffset))))

\* A Token and the plain object that renders it: a value and, optionally, a span.
TokenFields(value, span) == [value |-> value, span |-> span]

\* new Token(options).
Token(options) ==
  IF options.span = NoSpan THEN Return(TokenFields(options.value, NoSpan))
  ELSE OnValue(Span(options.span), LAMBDA span : Return(TokenFields(options.value, span)))

\* Token.toObject().
Token_toObject(this) ==
  IF this.span = NoSpan THEN Return(TokenFields(this.value, NoSpan))
  ELSE OnValue(Span_toObject(this.span), LAMBDA span :
         Return(TokenFields(this.value, span)))

\* Token.fromObject(data): the span handed to the constructor is
\* Span.fromObject(data.span).toObject(), a plain object of texts.
Token_fromObject(data) ==
  IF data.span = NoSpan THEN Token(data)
  ELSE OnValue(Span_fromObject(data.span), LAMBDA span :
         OnValue(Span_toObject(span), LAMBDA options :
           Token(TokenFields(data.value, options))))

\* The outcome of mapping an array through a call that may throw: the first error
\* ends the map.
Mapped(results) ==
  IF \E i \in 1..Len(results) : results[i].error # NoError
    THEN Throw(results[CHOOSE i \in 1..Len(results) :
                         /\ results[i].error # NoError
                         /\ \A k \in 1..(i - 1) : results[k].error = NoError].error)
    ELSE Return([i \in 1..Len(results) |-> results[i].value])

\* A Feature and the plain object that renders it: a mimeType and tokens.
FeatureFields(mimeType, tokens) == [mimeType |-> mimeType, tokens |-> tokens]

\* new Feature(options).
Feature(options) ==
  OnValue(Mapped([i \in 1..Len(options.tokens) |-> Token(options.tokens[i])]),
          LAMBDA tokens : Return(FeatureFields(options.mimeType, tokens)))

\* Feature.toObject().
Feature_toObject(this) ==
  OnValue(Mapped([i \in 1..Len(this.tokens) |-> Token_toObject(this.tokens[i])]),
          LAMBDA tokens : Return(FeatureFields(this.mimeType, tokens)))

\* Token.fromObject(t).toObject(), as Feature.fromObject maps it over data.tokens.
TokenOptionsOf(t) ==
  OnValue(Token_fromObject(t), LAMBDA token : Token_toObject(token))

\* Feature.fromObject(data).
Feature_fromObject(data) ==
  OnValue(Mapped([i \in 1..Len(data.tokens) |-> TokenOptionsOf(data.tokens[i])]),
          LAMBDA tokens : Feature(FeatureFields(data.mimeType, tokens)))

\* A DialogEvent and the plain object that renders it, with one feature.
DialogEventFields(id, span, feature) == [id |-> id, span |-> span, feature |-> feature]

\* new DialogEvent(options), for options that have id, speakerUri, span and features.
NewDialogEvent(options) ==
  OnValue(Span(options.span), LAMBDA span :
    OnValue(Feature(options.feature), LAMBDA feature :
      Return(DialogEventFields(options.id, span, feature))))

\* DialogEvent.toObject().
DialogEvent_toObject(this) ==
  OnValue(Span_toObject(this.span), LAMBDA span :
    OnValue(Feature_toObject(this.feature), LAMBDA feature :
      Return(DialogEventFields(this.id, span, feature))))

\* DialogEvent.fromObject(data): the span is Span.fromObject(data.span), the
\* feature is Feature.fromObject(v).toObject().
DialogEvent_fromObject(data) ==
  OnValue(Span_fromObject(data.span), LAMBDA span :
    OnValue(Feature_fromObject(data.feature), LAMBDA restored :
      OnValue(Feature_toObject(restored), LAMBDA feature :
        NewDialogEvent(DialogEventFields(data.id, span, feature)))))

\* The options a caller hands to new Span: each of the four is given or not, and
\* an offset may be zero.
SpanOptions ==
  {SpanFields(startTime, startOffset, endTime, endOffset) :
     startTime \in {Absent, Date(0), Date(1000)}, startOffset \in {Absent, Number(0), Number(1500)},
     endTime \in {Absent, Date(2000)}, endOffset \in {Absent, Number(0), Number(4000)}}

NotConstructed == [stage |-> "options", result |-> Throw(NoError)]

SpanInit ==
  /\ _currentContext = <<>>
  /\ _activeConversation = Null
  /\ _hasFloor = FALSE
  /\ call = NoCall
  /\ microtasks = <<>>
  /\ dispatch = NoDispatch
  /\ _activeConversants = {}
  /\ _currentSpeaker = Null
  /\ built = NoBuilt
  /\ subject \in SpanOptions
  /\ outcome = NotConstructed

\* new Span(options).
NewSpan ==
  /\ outcome.stage = "options"
  /\ outcome' = [stage |-> "constructed", result |-> Span(subject)]
  /\ UNCHANGED <<botVars, call, microtasks, dispatch, floorVars, built, subject>>

\* span.toObject() of the span that was constructed.
RenderSpan ==
  /\ outcome.stage = "constructed"
  /\ outcome.result.error = NoError
  /\ outcome' = [stage |-> "rendered", result |-> Span_toObject(outcome.result.value)]
  /\ UNCHANGED <<botVars, call, microtasks, dispatch, floorVars, built, subject>>

SpanNext == NewSpan \/ RenderSpan

SpanSpec == SpanInit /\ [][SpanNext]_vars

\* The durations a caller formats: whole seconds and not, below and above a
\* minute, an hour and a day.
Milliseconds ==
  {Number(seconds * 1000 + rest) :
     seconds \in {0, 1, 59, 60, 61, 3599, 3600, 3661, 86399, 86400, 90061},
     rest \in {0, 1, 500, 999}}

NotFormatted == [stage |-> "milliseconds", text |-> Absent, result |-> Throw(NoError)]

DurationInit ==
  /\ _currentContext = <<>>
  /\ _activeConversation = Null
  /\ _hasFloor = FALSE
  /\ call = NoCall
  /\ microtasks = <<>>
  /\ dispatch = NoDispatch
  /\ _activeConversants = {}
  /\ _currentSpeaker = Null
  /\ built = NoBuilt
  /\ subject \in Milliseconds
  /\ outcome = NotFormatted

\* text = millisecondsToIsoDuration(n)
FormatDuration ==
  /\ outcome.stage = "milliseconds"
  /\ outcome' = [outcome EXCEPT !.stage = "formatted",
                                !.text = millisecondsToIsoDuration(subject)]
  /\ UNCHANGED <<botVars, call, microtasks, dispatch, floorVars, built, subject>>

\* parseIsoDuration(text)
ParseDuration ==
  /\ outcome.stage = "formatted"
  /\ outcome' = [outcome EXCEPT !.stage = "parsed", !.result = parseIsoDuration(outcome.text)]
  /\ UNCHANGED <<botVars, call, microtasks, dispatch, floorVars, built, subject>>

DurationNext == FormatDuration \/ ParseDuration

DurationSpec == DurationInit /\ [][DurationNext]_vars

----------------------------------------------------------------------------
(* Value objects: To, Event, Envelope, Manifest (envelope.ts) *)

\* new To(options): private is stored as a boolean.
NewTo(options) ==
  IF Falsy(options.speakerUri) /\ Falsy(options.serviceUrl) THEN Throw(ToRequiresTarget)
  ELSE Return(PrivateTo(options.speakerUri, options.serviceUrl,
                        IF options.private = "true" THEN "true" ELSE "false"))

\* To.toObject(): a field is rendered when it is truthy.
To_toObject(this) ==
  PrivateTo(IF Falsy(this.speakerUri) THEN Undefined ELSE this.speakerUri,
            IF Falsy(this.serviceUrl) THEN Undefined ELSE this.serviceUrl,
            IF this.private = "true" THEN "true" ELSE Undefined)

\* To.fromObject(data).
To_fromObject(data) ==
  IF Falsy(data.speakerUri) /\ Falsy(data.serviceUrl) THEN Throw(ToRequiresTarget)
  ELSE NewTo(data)

InvalidEventType == "Invalid eventType"
EventRequiresEventType == "Event requires eventType"

\* new Event(options).
NewBaseEvent(options) ==
  IF Falsy(options.eventType) \/ options.eventType \notin allowedEventTypes
    THEN Throw(InvalidEventType)
  ELSE IF options.to.absent
    THEN Return(EventWith(options.eventType, NoTo, options.reason, options.parameters))
  ELSE OnValue(NewTo(options.to), LAMBDA to :
         Return(EventWith(options.eventType, to, options.reason, options.parameters)))

\* Event.toObject(): to and reason are rendered when truthy, parameters when they
\* have a key.
Event_toObject(this) ==
  EventWith(this.eventType, IF this.to.absent THEN NoTo ELSE To_toObject(this.to),
            IF Falsy(this.reason) THEN Undefined ELSE this.reason, this.parameters)

\* The `to` a fromObject hands to a constructor: To.fromObject(data.to).toObject()
\* when data.to is an object.
ToOptionsOf(data) ==
  IF data.to.absent THEN Return(NoTo)
  ELSE OnValue(To_fromObject(data.to), LAMBDA to : Return(To_toObject(to)))

\* Event.fromObject(data).
Event_fromObject(data) ==
  IF data.eventType = Undefined THEN Throw(EventRequiresEventType)
  ELSE IF data.eventType \notin allowedEventTypes THEN Throw(InvalidEventType)
  ELSE OnValue(ToOptionsOf(data), LAMBDA to :
         NewBaseEvent(EventWith(data.eventType, to, data.reason, data.parameters)))

\* The plain object Envelope.toObject() gives.
EnvelopeObject(conversation, sender, events) ==
  [conversation |-> conversation, sender |-> sender, events |-> events]

\* Envelope.toObject().
Envelope_toObject(this) ==
  EnvelopeObject(this.conversation, this.sender,
                 [i \in 1..Len(this.events) |-> Event_toObject(this.events[i])])

\* Envelope.fromObject(data): every event goes through Event.fromObject, and what
\* it gives goes through the Event constructor once more, with e.to.toObject().
Envelope_fromObject(data) ==
  OnValue(Mapped([i \in 1..Len(data.events) |-> Event_fromObject(data.events[i])]),
          LAMBDA eventsArr :
            Return(Envelope(data.conversation, data.sender,
                            [i \in 1..Len(eventsArr) |-> Event_toObject(eventsArr[i])])))

\* An Identification and the plain object that renders it; the five required
\* fields are given, department may be given.
Identification(uri, department) ==
  [speakerUri |-> uri, serviceUrl |-> serviceUrl, department |-> department]

\* new Capability(options), for options with keyphrases and descriptions: languages
\* are kept when given, supportedLayers default to text in and text out.  An
\* option that is not given is the empty sequence.
Capability(options) ==
  [keyphrases |-> options.keyphrases, descriptions |-> options.descriptions,
   languages |-> options.languages,
   supportedLayers |-> IF options.supportedLayers = <<>> THEN <<"text">>
                       ELSE options.supportedLayers]

\* new Manifest({identification, capabilities}): department is kept when truthy.
Manifest(options) ==
  [identification |->
     Identification(options.identification.speakerUri,
                    IF Falsy(options.identification.department)
                      THEN Undefined ELSE options.identification.department),
   capabilities |-> [i \in 1..Len(options.capabilities) |-> Capability(options.capabilities[i])]]

\* Manifest.toObject(): department is rendered when truthy.
Manifest_toObject(this) ==
  [identification |->
     Identification(this.identification.speakerUri,
                    IF Falsy(this.identification.department)
                      THEN Undefined ELSE this.identification.department),
   capabilities |-> this.capabilities]

\* Manifest.fromObject(data).
Manifest_fromObject(data) == Return(Manifest(data))

----------------------------------------------------------------------------
(* Rendering a value object and restoring it from what was rendered *)

\* The spans the host constructs: a start that is a Date or an offset, and
\* possibly an end.
Instants == {Date(1000)}
Offsets == {Number(0), Number(1500), Number(3661000)}

Spans ==
  {Span(SpanFields(start, Absent, end, Absent)).value :
     start \in Instants, end \in {Absent, Date(2000)}}
    \cup {Span(SpanFields(Absent, start, Absent, end)).value :
            start \in Offsets, end \in {Absent, Number(4000)}}

\* The value objects the host constructs.
DialogEvents ==
  {NewDialogEvent(DialogEventFields("de:1", span,
                    FeatureFields("text/plain", <<TokenFields("hello", tokenSpan)>>))).value :
     span \in Spans, tokenSpan \in Spans \cup {NoSpan}}

Events ==
  {Event(t, to) :
     t \in {"utterance", "bye", "grantFloor"},
     to \in {NoTo, To(OtherSpeakerUri, Undefined), To(Undefined, serviceUrl),
             To("", serviceUrl), To(OtherSpeakerUri, serviceUrl)}}
    \cup {EventWith(t, NewTo(PrivateTo(OtherSpeakerUri, Undefined, private)).value,
                    "@override", NoParameters) :
            t \in allowedEventTypes, private \in {"true", "false"}}

Envelopes ==
  {Envelope("conv:A", OtherSpeakerUri, es) :
     es \in {<<>>} \cup {<<e>> : e \in Events}}

Capabilities ==
  {<<>>,
   <<[keyphrases |-> <<"weather">>, descriptions |-> <<"forecasts">>, languages |-> <<>>,
      supportedLayers |-> <<>>]>>,
   <<[keyphrases |-> <<"weather">>, descriptions |-> <<"forecasts">>, languages |-> <<"en">>,
      supportedLayers |-> <<"text", "ssml">>]>>}

Manifests ==
  {Manifest([identification |-> Identification(uri, department),
             capabilities |-> capabilities]) :
     uri \in {speakerUri, OtherSpeakerUri}, department \in {Undefined, "", "support"},
     capabilities \in Capabilities}

Subjects ==
  {[class |-> "DialogEvent", value |-> x] : x \in DialogEvents}
    \cup {[class |-> "Event", value |-> x] : x \in Events}
    \cup {[class |-> "Envelope", value |-> x] : x \in Envelopes}
    \cup {[class |-> "Manifest", value |-> x] : x \in Manifests}

\* X.toObject() of a value object of class X.
ToObject(class, this) ==
  IF class = "DialogEvent" THEN DialogEvent_toObject(this)
  ELSE IF class = "Event" THEN Return(Event_toObject(this))
  ELSE IF class = "Envelope" THEN Return(Envelope_toObject(this))
  ELSE Return(Manifest_toObject(this))

\* X.fromObject(data).
FromObject(class, data) ==
  IF class = "DialogEvent" THEN DialogEvent_fromObject(data)
  ELSE IF class = "Event" THEN Event_fromObject(data)
  ELSE IF class = "Envelope" THEN Envelope_fromObject(data)
  ELSE Manifest_fromObject(data)

NoOutcome == [stage |-> "constructed", rendered |-> Return(Absent), restored |-> Return(Absent)]

RoundTripInit ==
  /\ _currentContext = <<>>
  /\ _activeConversation = Null
  /\ _hasFloor = FALSE
  /\ call = NoCall
  /\ microtasks = <<>>
  /\ dispatch = NoDispatch
  /\ _activeConversants = {}
  /\ _currentSpeaker = Null
  /\ built = NoBuilt
  /\ subject \in Subjects
  /\ outcome = NoOutcome

\* The host renders the object: x.toObject().
Render ==
  /\ outcome.stage = "constructed"
  /\ outcome' = [outcome EXCEPT !.stage = "rendered",
                                !.rendered = ToObject(subject.class, subject.value)]
  /\ UNCHANGED <<botVars, call, microtasks, dispatch, floorVars, built, subject>>

\* The host restores an object from what it rendered and renders that:
\* X.fromObject(rendered).toObject().
Restore ==
  /\ outcome.stage = "rendered"
  /\ outcome.rendered.error = NoError
  /\ outcome' = [outcome EXCEPT
                   !.stage = "restored",
                   !.restored = OnValue(FromObject(subject.class, outcome.rendered.value),
                                        LAMBDA back : ToObject(subject.class, back))]
  /\ UNCHANGED <<botVars, call, microtasks, dispatch, floorVars, built, subject>>

RoundTripNext == Render \/ Restore

RoundTripSpec == RoundTripInit /\ [][RoundTripNext]_vars

----------------------------------------------------------------------------
(* The event classes and the createEvent factory (events.ts) *)

DialogEventRequired == "UtteranceEvent requires parameters with dialogEvent"
UnknownEventType == "Unknown event type"

\* new UtteranceEvent(options): new DialogEvent(dialogEvent), then the base
\* constructor with parameters {dialogEvent: dialogEventInstance.toObject()}.
UtteranceEvent(options) ==
  IF options.parameters.dialogEvents = <<>> THEN Throw(DialogEventRequired)
  ELSE OnValue(NewDialogEvent(options.parameters.dialogEvents[1]), LAMBDA instance :
         OnValue(DialogEvent_toObject(instance), LAMBDA rendered :
           NewBaseEvent(EventWith("utterance", options.to, options.reason,
                                  Parameters("dialogEvent", <<rendered>>)))))

\* UtteranceEvent.fromObject(data): the dialogEvent handed to the constructor is
\* DialogEvent.fromObject(params.dialogEvent).toObject().
UtteranceEvent_fromObject(data) ==
  IF data.parameters.name # "dialogEvent" \/ data.parameters.dialogEvents = <<>>
    THEN Throw(DialogEventRequired)
  ELSE OnValue(DialogEvent_fromObject(data.parameters.dialogEvents[1]), LAMBDA instance :
         OnValue(DialogEvent_toObject(instance), LAMBDA dialogEvent :
           OnValue(ToOptionsOf(data), LAMBDA to :
             UtteranceEvent(EventWith("utterance", to, data.reason,
                                      Parameters("dialogEvent", <<dialogEvent>>))))))

\* DialogEvent.fromObject(eventData).toObject(), and new DialogEvent(eventData)
\* followed by toObject(), as the ContextEvent maps them over a dialogHistory.
Restored(eventData) ==
  OnValue(DialogEvent_fromObject(eventData), LAMBDA instance : DialogEvent_toObject(instance))
Rebuilt(eventData) ==
  OnValue(NewDialogEvent(eventData), LAMBDA instance : DialogEvent_toObject(instance))

\* new ContextEvent(options).
ContextEvent(options) ==
  OnValue(Mapped([i \in 1..Len(options.parameters.dialogEvents) |->
                    Rebuilt(options.parameters.dialogEvents[i])]),
          LAMBDA dialogHistory :
            NewBaseEvent(EventWith("context", options.to, options.reason,
                                   Parameters("dialogHistory", dialogHistory))))

\* ContextEvent.fromObject(data).
ContextEvent_fromObject(data) ==
  OnValue(Mapped([i \in 1..Len(data.parameters.dialogEvents) |->
                    Restored(data.parameters.dialogEvents[i])]),
          LAMBDA dialogHistory :
            OnValue(ToOptionsOf(data), LAMBDA to :
              ContextEvent(EventWith("context", to, data.reason,
                                     Parameters("dialogHistory", dialogHistory)))))

\* The parameters the constructor of an event class without dialog events
\* gives the base constructor.
ParametersOf(eventType) ==
  IF eventType = "getManifests" THEN Parameters("recommendScope", <<>>)
  ELSE IF eventType = "publishManifests" THEN Parameters("servicingManifests", <<>>)
  ELSE NoParameters

\* XEvent.fromObject(data) of the ten classes without dialog events: new
\* XEvent({to, reason}), whose constructor fixes the eventType.
BareEvent_fromObject(eventType, data) ==
  OnValue(ToOptionsOf(data), LAMBDA to :
    NewBaseEvent(EventWith(eventType, to, data.reason, ParametersOf(eventType))))

\* createEvent(data): the switch over data.eventType.
createEvent(data) ==
  IF data.eventType = "utterance" THEN UtteranceEvent_fromObject(data)
  ELSE IF data.eventType = "context" THEN ContextEvent_fromObject(data)
  ELSE IF data.eventType \in
            {"invite", "uninvite", "declineInvite", "bye", "getManifests",
             "publishManifests", "requestFloor", "grantFloor", "revokeFloor", "yieldFloor"}
    THEN BareEvent_fromObject(data.eventType, data)
  ELSE Throw(UnknownEventType)

\* The event types a caller may name: those of the EventType union of types.ts,
\* those the classes use, no type, and strings that are no event type.
EventTypes ==
  allowedEventTypes \cup {"publishManifest", Undefined, "", "notARealType"}

\* Dialog events as plain objects, as DialogEvent.toObject() gives them.
DialogEventObjects ==
  {DialogEvent_toObject(
     NewDialogEvent(DialogEventFields("de:1", span,
                      FeatureFields("text/plain", <<TokenFields("hello", NoSpan)>>))).value).value :
     span \in {SpanFields(Date(1000), Absent, Absent, Absent),
               SpanFields(Absent, Number(1500), Absent, Absent)}}

\* The parameters that go with an event type.
WellFormedParameters(eventType) ==
  IF eventType = "utterance"
    THEN {Parameters("dialogEvent", <<d>>) : d \in DialogEventObjects}
  ELSE IF eventType = "context"
    THEN {NoParameters, Parameters("dialogHistory", <<>>)}
  ELSE {NoParameters}

\* What a caller hands to an entry point: an event type, possibly a `to` and a
\* reason, and parameters that are well formed for the type.
EventOptions ==
  UNION {{EventWith(t, to, reason, parameters) :
            to \in {NoTo} \cup {PrivateTo(OtherSpeakerUri, Undefined, private) :
                                  private \in {Undefined, "true", "false"}},
            reason \in {Undefined, "@override"},
            parameters \in WellFormedParameters(t)} : t \in EventTypes}

\* What a call of an entry point leaves: what it returned or threw, and what
\* toObject() of the event it returned gives.
Called(entry, result) ==
  [stage |-> "called", entry |-> entry, error |-> result.error,
   rendered |-> IF result.error = NoError THEN Event_toObject(result.value) ELSE NoEvent]

NotCalled == [stage |-> "given", entry |-> "none", error |-> NoError, rendered |-> NoEvent]

\* A caller holds the options of an event.
EventInit ==
  /\ _currentContext = <<>>
  /\ _activeConversation = Null
  /\ _hasFloor = FALSE
  /\ call = NoCall
  /\ microtasks = <<>>
  /\ dispatch = NoDispatch
  /\ _activeConversants = {}
  /\ _currentSpeaker = Null
  /\ built = NoBuilt
  /\ subject \in EventOptions
  /\ outcome = NotCalled

\* new Event(options)
CallNewEvent ==
  /\ outcome.stage = "given"
  /\ outcome' = Called("new Event", NewBaseEvent(subject))
  /\ UNCHANGED <<botVars, call, microtasks, dispatch, floorVars, built, subject>>

\* Event.fromObject(data)
CallEventFromObject ==
  /\ outcome.stage = "given"
  /\ outcome' = Called("Event.fromObject", Event_fromObject(subject))
  /\ UNCHANGED <<botVars, call, microtasks, dispatch, floorVars, built, subject>>

\* createEvent(data)
CallCreateEvent ==
  /\ outcome.stage = "given"
  /\ outcome' = Called("createEvent", createEvent(subject))
  /\ UNCHANGED <<botVars, call, microtasks, dispatch, floorVars, built, subject>>

EventNext == CallNewEvent \/ CallEventFromObject \/ CallCreateEvent

EventSpec == EventInit /\ [][EventNext]_vars

----------------------------------------------------------------------------
(* The tracked participants of the invitation scenario *)

\* The agents that are invited, uninvited and that leave.
Agents == {speakerUri, OtherSpeakerUri, ThirdSpeakerUri}

\* state.indexOf(uri), counted from 1; 0 when the uri is not in the array.
IndexOf(state, uri) ==
  IF \E i \in 1..Len(state) : state[i] = uri
    THEN CHOOSE i \in 1..Len(state) :
           state[i] = uri /\ \A k \in 1..(i - 1) : state[k] # uri
    ELSE 0

\* state.splice(idx, 1)
Splice(state, idx) == SubSeq(state, 1, idx - 1) \o SubSeq(state, idx + 1, Len(state))

\* What the scenario applies: an event and, for a bye, the sender that the
\* scenario puts into what event.toObject() gives.
Applied(event, sender) == [event |-> event, sender |-> sender]

\* applyEventToState, with an invite pushing the uri whether or not it is there.
applyEventToState_pushing(state, applied) ==
  LET to == Event_toObject(applied.event).to
      uri == IF Falsy(to.speakerUri) THEN applied.sender ELSE to.speakerUri
  IN  IF applied.event.eventType = "invite"
        THEN IF ~Falsy(to.speakerUri) THEN Append(state, to.speakerUri) ELSE state
      ELSE IF applied.event.eventType \in {"uninvite", "bye"}
        THEN IF ~Falsy(uri) /\ IndexOf(state, uri) # 0
               THEN Splice(state, IndexOf(state, uri)) ELSE state
      ELSE state

\* applyEventToState(state, event): an invite appends to.speakerUri unless the
\* array includes it; an uninvite or a bye removes to.speakerUri or, without it,
\* sender.speakerUri.
applyEventToState(state, applied) ==
  LET to == Event_toObject(applied.event).to
      uri == IF Falsy(to.speakerUri) THEN applied.sender ELSE to.speakerUri
  IN  IF applied.event.eventType = "invite"
        THEN IF ~Falsy(to.speakerUri) /\ IndexOf(state, to.speakerUri) = 0
               THEN Append(state, to.speakerUri) ELSE state
      ELSE IF applied.event.eventType \in {"uninvite", "bye"}
        THEN IF ~Falsy(uri) /\ IndexOf(state, uri) # 0
               THEN Splice(state, IndexOf(state, uri)) ELSE state
      ELSE state

\* The events of the scenario: invite and uninvite events addressed to an agent,
\* bye events from an agent, and events that concern no participant.
ScenarioEvents ==
  {Applied(Event(t, To(a, Undefined)), Undefined) : t \in {"invite", "uninvite"}, a \in Agents}
    \cup {Applied(Event("bye", NoTo), a) : a \in Agents}
    \cup {Applied(Event("invite", NoTo), Undefined),
          Applied(Event("utterance", To(OtherSpeakerUri, Undefined)), Undefined)}

\* The array of the scenario after its latest event, with the event and the array
\* before it.
Tracked(state, applied, before) ==
  [stage |-> "tracked", state |-> state, applied |-> applied, before |-> before]

\* The scenario starts with an empty array.
ParticipantsInit ==
  /\ _currentContext = <<>>
  /\ _activeConversation = Null
  /\ _hasFloor = FALSE
  /\ call = NoCall
  /\ microtasks = <<>>
  /\ dispatch = NoDispatch
  /\ _activeConversants = {}
  /\ _currentSpeaker = Null
  /\ built = NoBuilt
  /\ subject = Null
  /\ outcome = Tracked(<<>>, Applied(NoEvent, Undefined), <<>>)

\* state = applyEventToState(state, event)
ApplyEvent(applied) ==
  /\ outcome' = Tracked(applyEventToState(outcome.state, applied), applied, outcome.state)
  /\ UNCHANGED <<botVars, call, microtasks, dispatch, floorVars, built, subject>>

ParticipantsNext == \E applied \in ScenarioEvents : ApplyEvent(applied)

ParticipantsSpec == ParticipantsInit /\ [][ParticipantsNext]_vars

----------------------------------------------------------------------------
(* SimpleValidator (validation.ts) *)

\* Data handed to the validator: null, undefined, a string, a number, an object
\* (its own properties, in the order of Object.entries) or an array.
JData(type, s, n, props, items) ==
  [type |-> type, s |-> s, n |-> n, props |-> props, items |-> items]
JNull == JData("null", "", 0, <<>>, <<>>)
JUndefined == JData("undefined", "", 0, <<>>, <<>>)
JString(s) == JData("string", s, 0, <<>>, <<>>)
JNumber(n) == JData("number", "", n, <<>>, <<>>)
JObject(props) == JData("object", "", 0, props, <<>>)
JArray(items) == JData("array", "", 0, <<>>, items)
Prop(name, value) == [name |-> name, value |-> value]

\* typeof data
typeof(data) == IF data.type \in {"null", "object", "array"} THEN "object" ELSE data.type

\* data && typeof data === 'object'
IsObject(data) == data.type \in {"object", "array"}

\* Object.entries(obj): the properties of an object, the indexed items of an array.
Entries(obj) ==
  IF obj.type = "array"
    THEN [i \in 1..Len(obj.items) |-> Prop(ToString(i - 1), obj.items[i])]
    ELSE obj.props

\* prop in obj, and obj[prop], for names that Object.prototype does not define.
In(name, obj) == \E i \in 1..Len(Entries(obj)) : Entries(obj)[i].name = name
Get(obj, name) ==
  IF In(name, obj)
    THEN Entries(obj)[CHOOSE i \in 1..Len(Entries(obj)) : Entries(obj)[i].name = name].value
    ELSE JUndefined

\* A regular expression source: whether new RegExp(source) accepts it, and the
\* strings regex.test accepts.
Pattern(source, wellFormed, accepts) ==
  [source |-> source, wellFormed |-> wellFormed, accepts |-> accepts]

\* A schema without keywords, {}.  A keyword that is absent is falsy: type is "",
\* required, properties and patternProperties are empty, and the has-flags are off.
EmptySchema ==
  [type |-> "", required |-> <<>>, properties |-> <<>>, patternProperties |-> <<>>,
   hasItems |-> FALSE, items |-> <<>>, hasEnum |-> FALSE, enum |-> {},
   hasMinimum |-> FALSE, minimum |-> 0, hasMaximum |-> FALSE, maximum |-> 0,
   hasPattern |-> FALSE, pattern |-> Pattern("", TRUE, {}),
   hasAnyOf |-> FALSE, anyOf |-> <<>>]

\* An entry of the errors array: the path, what is wrong and the name or value the
\* message quotes.
Err(path, message, detail) == [path |-> path, message |-> message, detail |-> detail]

InvalidRegExp == "Invalid regular expression"

\* The errors array and the exception under way, if any.
Errors(errors, thrown) == [errors |-> errors, thrown |-> thrown]

Push(acc, error) == [acc EXCEPT !.errors = Append(@, error)]

\* The type check fails: the function pushes an error and returns.
TypeMismatch(data, schema) ==
  /\ schema.type # ""
  /\ IF schema.type = "array" THEN data.type # "array"
     ELSE /\ typeof(data) # schema.type
          /\ ~(schema.type = "object" /\ IsObject(data))

\* for (const requiredProp of schema.required) ...
RECURSIVE Required(_, _, _, _, _)
Required(data, required, path, acc, i) ==
  IF i > Len(required) THEN acc
  ELSE Required(data, required, path,
                IF ~In(required[i], data) \/ Get(data, required[i]).type = "undefined"
                  THEN Push(acc, Err(path, "missing required property", required[i]))
                  ELSE acc,
                i + 1)

\* The number range checks.
Range(data, schema, path, acc) ==
  LET below == IF data.type = "number" /\ schema.hasMinimum /\ data.n < schema.minimum
                 THEN Push(acc, Err(path, "is below minimum", "")) ELSE acc
  IN  IF data.type = "number" /\ schema.hasMaximum /\ data.n > schema.maximum
        THEN Push(below, Err(path, "is above maximum", "")) ELSE below

RECURSIVE _validateObject(_, _, _, _)
RECURSIVE Properties(_, _, _, _, _)
RECURSIVE PatternProperties(_, _, _, _, _, _)
RECURSIVE Items(_, _, _, _, _)
RECURSIVE AnyOf(_, _, _, _, _)
RECURSIVE AnyOf_keepingBranchErrors(_, _, _, _, _)

\* for (const [propName, propSchema] of Object.entries(schema.properties)) ...
Properties(data, properties, path, acc, i) ==
  IF i > Len(properties) \/ acc.thrown # NoError THEN acc
  ELSE Properties(data, properties, path,
                  IF In(properties[i].name, data)
                    THEN _validateObject(Get(data, properties[i].name), properties[i].value,
                                         Append(path, properties[i].name), acc)
                    ELSE acc,
                  i + 1)

\* for (const [pattern, propSchema] of Object.entries(schema.patternProperties)):
\* new RegExp(pattern), then every property of the object whose name it accepts.
\* k counts the properties of the object, i the patterns.
PatternProperties(data, patternProperties, path, acc, i, k) ==
  IF i > Len(patternProperties) \/ acc.thrown # NoError THEN acc
  ELSE IF ~patternProperties[i].name.wellFormed THEN [acc EXCEPT !.thrown = InvalidRegExp]
  ELSE IF k > Len(Entries(data))
    THEN PatternProperties(data, patternProperties, path, acc, i + 1, 1)
  ELSE PatternProperties(data, patternProperties, path,
                         IF Entries(data)[k].name \in patternProperties[i].name.accepts
                           THEN _validateObject(Entries(data)[k].value,
                                                patternProperties[i].value,
                                                Append(path, Entries(data)[k].name), acc)
                           ELSE acc,
                         i, k + 1)

\* data.forEach((item, index) => ...)
Items(data, items, path, acc, i) ==
  IF i > Len(data.items) \/ acc.thrown # NoError THEN acc
  ELSE Items(data, items, path,
             _validateObject(data.items[i], items, Append(path, "[" \o ToString(i - 1) \o "]"),
                             acc),
             i + 1)

\* The anyOf loop, with the errors of the branches pushed to the result.
AnyOf_keepingBranchErrors(data, anyOf, path, acc, i) ==
  IF i > Len(anyOf)
    THEN Push(acc, Err(path, "value does not match any of the allowed schemas", ""))
  ELSE LET sub == _validateObject(data, anyOf[i], path, Errors(<<>>, NoError))
       IN  IF sub.thrown # NoError THEN [acc EXCEPT !.thrown = sub.thrown]
           ELSE IF sub.errors = <<>> THEN acc
           ELSE AnyOf_keepingBranchErrors(data, anyOf, path,
                                          [acc EXCEPT !.errors = @ \o sub.errors], i + 1)

\* for (const subSchema of schema.anyOf): every branch gets an errors array of its
\* own; the first branch without errors ends the loop; when none is found, one
\* error is pushed.
AnyOf(data, anyOf, path, acc, i) ==
  IF i > Len(anyOf)
    THEN Push(acc, Err(path, "value does not match any of the allowed schemas", ""))
  ELSE LET sub == _validateObject(data, anyOf[i], path, Errors(<<>>, NoError))
       IN  IF sub.thrown # NoError THEN [acc EXCEPT !.thrown = sub.thrown]
           ELSE IF sub.errors = <<>> THEN acc
           ELSE AnyOf(data, anyOf, path, acc, i + 1)

\* The keywords after the type check, each acting on what the one before left,
\* unless an exception is under way.
AfterRequired(data, schema, path, acc) ==
  IF IsObject(data) THEN Required(data, schema.required, path, acc, 1) ELSE acc

AfterProperties(data, schema, path, acc) ==
  IF IsObject(data) THEN Properties(data, schema.properties, path, acc, 1) ELSE acc

AfterPatternProperties(data, schema, path, acc) ==
  IF IsObject(data) THEN PatternProperties(data, schema.patternProperties, path, acc, 1, 1)
  ELSE acc

AfterItems(data, schema, path, acc) ==
  IF acc.thrown = NoError /\ schema.hasItems /\ data.type = "array"
    THEN Items(data, schema.items, path, acc, 1) ELSE acc

AfterEnum(data, schema, path, acc) ==
  IF acc.thrown = NoError /\ schema.hasEnum
       /\ ~(data.type = "string" /\ data.s \in schema.enum)
    THEN Push(acc, Err(path, "value must be one of", "")) ELSE acc

AfterRange(data, schema, path, acc) ==
  IF acc.thrown = NoError THEN Range(data, schema, path, acc) ELSE acc

AfterPattern(data, schema, path, acc) ==
  IF acc.thrown # NoError \/ data.type # "string" \/ ~schema.hasPattern THEN acc
  ELSE IF ~schema.pattern.wellFormed THEN [acc EXCEPT !.thrown = InvalidRegExp]
  ELSE IF data.s \notin schema.pattern.accepts
    THEN Push(acc, Err(path, "string does not match pattern", schema.pattern.source))
  ELSE acc

AfterAnyOf(data, schema, path, acc) ==
  IF acc.thrown = NoError /\ schema.hasAnyOf THEN AnyOf(data, schema.anyOf, path, acc, 1)
  ELSE acc

\* SimpleValidator._validateObject(data, schema, path, errors).
_validateObject(data, schema, path, acc) ==
  IF TypeMismatch(data, schema)
    THEN Push(acc, Err(path, "expected " \o schema.type, typeof(data)))
    ELSE AfterAnyOf(data, schema, path,
           AfterPattern(data, schema, path,
             AfterRange(data, schema, path,
               AfterEnum(data, schema, path,
                 AfterItems(data, schema, path,
                   AfterPatternProperties(data, schema, path,
                     AfterProperties(data, schema, path,
                       AfterRequired(data, schema, path, acc))))))))

\* What validate gives its caller: the result it returns, or the exception that
\* leaves it.
Validated(acc) ==
  [stage |-> "validated", valid |-> acc.errors = <<>>, errors |-> acc.errors,
   raised |-> acc.thrown]

\* SimpleValidator.validate without its try/catch.
validate_withoutCatch(data, schema) ==
  Validated(_validateObject(data, schema, <<>>, Errors(<<>>, NoError)))

\* SimpleValidator.validate(data, schema): an exception of _validateObject is
\* caught and becomes one more entry of errors.
validate(data, schema) ==
  LET acc == _validateObject(data, schema, <<>>, Errors(<<>>, NoError))
  IN  IF acc.thrown = NoError THEN Validated(acc)
      ELSE Validated(Errors(Append(acc.errors, Err(<<>>, "Validation error", acc.thrown)),
                            NoError))

\* The data the validator is applied to.
Data ==
  { JNull, JUndefined, JString(speakerUri), JString("bot1"), JNumber(1),
    JArray(<<>>), JArray(<<JString(speakerUri)>>),
    JObject(<<>>),
    JObject(<<Prop("speakerUri", JString(speakerUri))>>),
    JObject(<<Prop("speakerUri", JUndefined), Prop("serviceUrl", JString(serviceUrl))>>),
    JObject(<<Prop("speakerUri", JString("bot1")), Prop("serviceUrl", JString(serviceUrl))>>),
    JObject(<<Prop("speakerUri", JNull), Prop("private", JNumber(1))>>) }

\* The regular expressions of the schemas: one for tag URIs, one for the names
\* ending in Url, and one that new RegExp rejects.
TagPattern == Pattern("^tag:", TRUE, {speakerUri, OtherSpeakerUri})
UrlNamePattern == Pattern("Url$", TRUE, {"serviceUrl"})
OpenGroupPattern == Pattern("(", FALSE, {})

RequiredSchema(required) == [EmptySchema EXCEPT !.type = "object", !.required = required]
StringSchema == [EmptySchema EXCEPT !.type = "string"]
TagSchema == [EmptySchema EXCEPT !.type = "string", !.hasPattern = TRUE, !.pattern = TagPattern]
AnyOfSchema(anyOf) == [EmptySchema EXCEPT !.hasAnyOf = TRUE, !.anyOf = anyOf]

\* Schemas with a type and a non-empty required list.
RequiredSchemas ==
  { RequiredSchema(<<"speakerUri">>), RequiredSchema(<<"speakerUri", "serviceUrl">>),
    RequiredSchema(<<"serviceUrl", "private">>) }

\* Schemas that consist of anyOf alone, over branches without a malformed pattern.
AnyOfSchemas ==
  { AnyOfSchema(<<>>),
    AnyOfSchema(<<RequiredSchema(<<"speakerUri">>), RequiredSchema(<<"serviceUrl">>)>>),
    AnyOfSchema(<<TagSchema, [EmptySchema EXCEPT !.type = "number", !.hasMinimum = TRUE,
                                                 !.minimum = 2]>>),
    AnyOfSchema(<<[EmptySchema EXCEPT !.hasEnum = TRUE, !.enum = {"bot1"}],
                  [EmptySchema EXCEPT !.type = "array", !.hasItems = TRUE,
                                      !.items = TagSchema]>>) }

\* Schemas with a pattern that new RegExp rejects.
MalformedSchemas ==
  { [EmptySchema EXCEPT !.hasPattern = TRUE, !.pattern = OpenGroupPattern],
    [EmptySchema EXCEPT !.type = "object", !.required = <<"private">>,
                        !.patternProperties = <<Prop(OpenGroupPattern, EmptySchema)>>],
    AnyOfSchema(<<[EmptySchema EXCEPT !.hasPattern = TRUE, !.pattern = OpenGroupPattern],
                  EmptySchema>>) }

\* A schema whose anyOf is under a property.
NestedAnyOfSchema ==
  [EmptySchema EXCEPT !.type = "object",
                      !.properties = <<Prop("speakerUri",
                                            AnyOfSchema(<<TagSchema, RequiredSchema(<<"id">>)>>))>>]

Schemas ==
  RequiredSchemas \cup AnyOfSchemas \cup MalformedSchemas \cup
  { EmptySchema, TagSchema,
    [EmptySchema EXCEPT !.type = "object",
                        !.properties = <<Prop("speakerUri", TagSchema),
                                         Prop("serviceUrl", StringSchema)>>],
    [EmptySchema EXCEPT !.patternProperties = <<Prop(UrlNamePattern, TagSchema)>>],
    [EmptySchema EXCEPT !.type = "number", !.hasMaximum = TRUE, !.maximum = 0],
    NestedAnyOfSchema }

Validations == [data : Data, schema : Schemas]

NotValidated == [stage |-> "given", valid |-> FALSE, errors |-> <<>>, raised |-> NoError]

\* A caller holds some data and a schema.
ValidatorInit ==
  /\ _currentContext = <<>>
  /\ _activeConversation = Null
  /\ _hasFloor = FALSE
  /\ call = NoCall
  /\ microtasks = <<>>
  /\ dispatch = NoDispatch
  /\ _activeConversants = {}
  /\ _currentSpeaker = Null
  /\ built = NoBuilt
  /\ subject \in Validations
  /\ outcome = NotValidated

\* The caller applies SimpleValidator.validate(data, schema).
Validate ==
  /\ outcome.stage = "given"
  /\ outcome' = validate(subject.data, subject.schema)
  /\ UNCHANGED <<botVars, call, microtasks, dispatch, floorVars, built, subject>>

ValidatorNext == Validate

ValidatorSpec == ValidatorInit /\ [][ValidatorNext]_vars

----------------------------------------------------------------------------
(* The schemas and the validation of what the value objects render *)

JBoolean(b) == JData("boolean", "", IF b THEN 1 ELSE 0, <<>>, <<>>)

\* The keys of a plain object: an assignment guarded by a condition that fails
\* leaves the key out.
Defined(props) == SelectSeq(props, LAMBDA p : p.value # JUndefined)

JStrings(strings) == JArray([i \in 1..Len(strings) |-> JString(strings[i])])

\* The JSON value of a rendered text or of a rendered string field.
JText(x) ==
  IF x = Absent THEN JUndefined
  ELSE JString(IF x.type = "dateTimeText" THEN ToString(x.n) ELSE "PT")
JField(x) == IF x = Undefined THEN JUndefined ELSE JString(x)

\* What Span.toObject() gives, as JSON.
SpanData(obj) ==
  JObject(Defined(<<Prop("startTime", JText(obj.startTime)),
                    Prop("startOffset", JText(obj.startOffset)),
                    Prop("endTime", JText(obj.endTime)),
                    Prop("endOffset", JText(obj.endOffset))>>))

TokenData(obj) ==
  JObject(Defined(<<Prop("value", JString(obj.value)),
                    Prop("span", IF obj.span = NoSpan THEN JUndefined ELSE SpanData(obj.span))>>))

\* What DialogEvent.toObject() gives, as JSON: id, speakerUri, span and the
\* features by name.
DialogEventData(obj) ==
  JObject(<<Prop("id", JString(obj.id)),
            Prop("speakerUri", JString(speakerUri)),
            Prop("span", SpanData(obj.span)),
            Prop("features",
                 JObject(<<Prop("text",
                   JObject(<<Prop("mimeType", JString(obj.feature.mimeType)),
                             Prop("tokens",
                                  JArray([i \in 1..Len(obj.feature.tokens) |->
                                            TokenData(obj.feature.tokens[i])]))>>))>>))>>)

\* What To.toObject() gives, as JSON.
ToData(obj) ==
  JObject(Defined(<<Prop("speakerUri", JField(obj.speakerUri)),
                    Prop("serviceUrl", JField(obj.serviceUrl)),
                    Prop("private", IF obj.private = "true" THEN JBoolean(TRUE)
                                    ELSE JUndefined)>>))

ParametersData(parameters) ==
  IF parameters = NoParameters THEN JUndefined
  ELSE JObject(<<Prop(parameters.name,
                      IF parameters.name = "dialogEvent" /\ parameters.dialogEvents # <<>>
                        THEN DialogEventData(parameters.dialogEvents[1])
                        ELSE JArray([i \in 1..Len(parameters.dialogEvents) |->
                                       DialogEventData(parameters.dialogEvents[i])]))>>)

\* What Event.toObject() gives, as JSON.
EventData(obj) ==
  JObject(Defined(<<Prop("eventType", JString(obj.eventType)),
                    Prop("to", IF obj.to.absent THEN JUndefined ELSE ToData(obj.to)),
                    Prop("reason", JField(obj.reason)),
                    Prop("parameters", ParametersData(obj.parameters))>>))

\* What Envelope.toObject() gives, as JSON: the schema with its version, the
\* conversation with its id, the sender and the events.
EnvelopeData(obj) ==
  JObject(<<Prop("schema", JObject(<<Prop("version", JString("1.0.0"))>>)),
            Prop("conversation", JObject(<<Prop("id", JString(obj.conversation))>>)),
            Prop("sender", JObject(<<Prop("speakerUri", JString(obj.sender))>>)),
            Prop("events", JArray([i \in 1..Len(obj.events) |-> EventData(obj.events[i])]))>>)

CapabilityData(obj) ==
  JObject(Defined(<<Prop("keyphrases", JStrings(obj.keyphrases)),
                    Prop("descriptions", JStrings(obj.descriptions)),
                    Prop("supportedLayers",
                         JObject(<<Prop("input", JStrings(obj.supportedLayers)),
                                   Prop("output", JStrings(obj.supportedLayers))>>)),
                    Prop("languages", IF obj.languages = <<>> THEN JUndefined
                                      ELSE JStrings(obj.languages))>>))

\* What Manifest.toObject() gives, as JSON.
ManifestData(obj) ==
  JObject(<<Prop("identification",
                 JObject(Defined(<<Prop("speakerUri", JString(obj.identification.speakerUri)),
                                   Prop("serviceUrl", JString(serviceUrl)),
                                   Prop("organization", JString("Org")),
                                   Prop("conversationalName", JString("Bot")),
                                   Prop("department", JField(obj.identification.department)),
                                   Prop("synopsis", JString("A bot"))>>))),
            Prop("capabilities",
                 JArray([i \in 1..Len(obj.capabilities) |-> CapabilityData(obj.capabilities[i])]))>>)

\* The keywords of the three schemas that the validator reads.  A schema that
\* is a $ref only has none of them.
StringType == [EmptySchema EXCEPT !.type = "string"]
StringArray == [EmptySchema EXCEPT !.type = "array", !.hasItems = TRUE, !.items = StringType]

conversationEnvelopeSchema ==
  [EmptySchema EXCEPT
     !.type = "object", !.required = <<"openFloor">>,
     !.properties = <<Prop("openFloor",
       [EmptySchema EXCEPT
          !.required = <<"schema", "conversation", "sender", "events">>,
          !.properties =
            <<Prop("schema",
                   [EmptySchema EXCEPT !.type = "object", !.required = <<"version">>,
                                       !.properties = <<Prop("version", StringType),
                                                        Prop("url", EmptySchema)>>]),
              Prop("conversation",
                   [EmptySchema EXCEPT !.required = <<"id">>,
                                       !.properties = <<Prop("id", StringType)>>]),
              Prop("sender",
                   [EmptySchema EXCEPT !.type = "object", !.required = <<"speakerUri">>,
                                       !.properties = <<Prop("speakerUri", EmptySchema),
                                                        Prop("serviceUrl", EmptySchema)>>]),
              Prop("events",
                   [EmptySchema EXCEPT
                      !.type = "array", !.hasItems = TRUE,
                      !.items =
                        [EmptySchema EXCEPT
                           !.type = "object",
                           !.properties =
                             <<Prop("eventType",
                                    [EmptySchema EXCEPT
                                       !.type = "string", !.hasEnum = TRUE,
                                       !.enum = allowedEventTypes
                                                  \cup {"findAssistant", "proposeAssistant"}]),
                               Prop("to",
                                    [EmptySchema EXCEPT
                                       !.type = "object",
                                       !.properties =
                                         <<Prop("speakerUri", EmptySchema),
                                           Prop("serviceUrl", EmptySchema),
                                           Prop("private",
                                                [EmptySchema EXCEPT !.type = "boolean"])>>]),
                               Prop("reason", StringType)>>]])>>])>>]

dialogEventSchema ==
  [EmptySchema EXCEPT
     !.type = "object", !.required = <<"id", "speakerUri", "span", "features">>,
     !.properties = <<Prop("id", StringType), Prop("previousId", StringType),
                      Prop("speakerUri", StringType), Prop("span", EmptySchema),
                      Prop("features",
                           [EmptySchema EXCEPT
                              !.type = "object",
                              !.patternProperties =
                                <<Prop(Pattern(".*", TRUE, {"text"}), EmptySchema)>>])>>]

assistantManifestSchema ==
  [EmptySchema EXCEPT
     !.type = "object", !.required = <<"identification", "capabilities">>,
     !.properties =
       <<Prop("identification",
              [EmptySchema EXCEPT
                 !.type = "object",
                 !.required = <<"serviceUrl", "organization", "conversationalName">>,
                 !.properties = <<Prop("speakerUri", EmptySchema),
                                  Prop("serviceUrl", EmptySchema),
                                  Prop("organization", StringType),
                                  Prop("conversationalName", StringType),
                                  Prop("department", StringType),
                                  Prop("role", StringType),
                                  Prop("synopsis", StringType)>>]),
         Prop("capabilities",
              [EmptySchema EXCEPT
                 !.type = "array", !.hasItems = TRUE,
                 !.items =
                   [EmptySchema EXCEPT
                      !.type = "object", !.required = <<"keyphrases", "descriptions">>,
                      !.properties =
                        <<Prop("keyphrases", StringArray),
                          Prop("languages", StringArray),
                          Prop("descriptions", StringArray),
                          Prop("supportedLayers",
                               [EmptySchema EXCEPT
                                  !.type = "object", !.required = <<"input", "output">>,
                                  !.properties = <<Prop("input", StringArray),
                                                   Prop("output", StringArray)>>])>>]])>>]

validateEnvelope(data) == validate(data, conversationEnvelopeSchema)
validateDialogEvent(data) == validate(data, dialogEventSchema)
validateManifest(data) == validate(data, assistantManifestSchema)

\* The payload handed to validateEnvelope without its openFloor wrapper.
OpenFloor_unwrapped(envelope) == envelope

\* The payload of an envelope: { openFloor: envelope.toObject() }.
OpenFloor(envelope) == JObject(<<Prop("openFloor", envelope)>>)

\* validateX(x.toObject()) for a value object of class X.
ValidatedObject(class, rendered) ==
  IF class = "DialogEvent" THEN validateDialogEvent(DialogEventData(rendered))
  ELSE IF class = "Envelope" THEN validateEnvelope(OpenFloor(EnvelopeData(rendered)))
  ELSE validateManifest(ManifestData(rendered))

\* The utterance events of the event classes, with their dialog event.
UtteranceEvents ==
  {UtteranceEvent(EventWith("utterance", to, Undefined,
                            Parameters("dialogEvent", <<d>>))).value :
     d \in {x \in DialogEvents : x.feature.tokens[1].span = NoSpan},
     to \in {NoTo, To(OtherSpeakerUri, Undefined)}}

\* The value objects that are validated: dialog events, manifests, and envelopes
\* of one or two events of every event type.
Constructed ==
  {x \in Subjects : x.class # "Event"}
    \cup {[class |-> "Envelope", value |-> Envelope("conv:A", OtherSpeakerUri, <<u, e>>)] :
            u \in UtteranceEvents,
            e \in {Event("invite", NoTo),
                   EventWith("bye", NewTo(PrivateTo(OtherSpeakerUri, Undefined, "true")).value,
                             "@timedOut", NoParameters)}}

ConformanceInit ==
  /\ _currentContext = <<>>
  /\ _activeConversation = Null
  /\ _hasFloor = FALSE
  /\ call = NoCall
  /\ microtasks = <<>>
  /\ dispatch = NoDispatch
  /\ _activeConversants = {}
  /\ _currentSpeaker = Null
  /\ built = NoBuilt
  /\ subject \in Constructed
  /\ outcome = NotValidated

\* The host renders the object and validates what it rendered.
ValidateConstructed ==
  /\ outcome.stage = "given"
  /\ outcome' = ValidatedObject(subject.class, ToObject(subject.class, subject.value).value)
  /\ UNCHANGED <<botVars, call, microtasks, dispatch, floorVars, built, subject>>

ConformanceNext == ValidateConstructed

ConformanceSpec == ConformanceInit /\ [][ConformanceNext]_vars

----------------------------------------------------------------------------
(* Properties of the BotAgent *)

\* The addressing rule as the specification words it.
AddressedToAgent(event) ==
  \/ event.to.absent
  \/ event.to.speakerUri = speakerUri
  \/ event.to.serviceUrl = serviceUrl

Count(events, eventType) == Len(SelectSeq(events, LAMBDA e : e.eventType = eventType))

IsAddressedUtterance(e) == e.eventType = "utterance" /\ AddressedToAgent(e)
IsAddressedGetManifests(e) == e.eventType = "getManifests" /\ AddressedToAgent(e)
IsAddressedContext(e) == e.eventType = "context" /\ AddressedToAgent(e)

\* The conflict guard fired in the latest call.
ConflictFired == call.error = ConversationConflict

\* C1: when the agent is bound to conversation A and processEnvelope gets an
\* envelope of conversation B, the promise of the call rejects instead of
\* fulfilling with an outbound envelope, and no event of the envelope is handled.
C1_ConflictFailsCall ==
  (ConflictFired /\ call.promise # "pending")
    => (call.promise = "rejected" /\ call.handled = <<>>)

\* C2: a processEnvelope call that runs into the conflict guard leaves
\* currentContext, activeConversation and hasFloor as they were before the call.
C2_ConflictLeavesState ==
  [][(/\ call.promise = "none"
      /\ call'.promise = "pending"
      /\ _activeConversation # Null
      /\ _activeConversation # call'.inEnvelope.conversation)
     => UNCHANGED botVars]_vars

\* C3: once an invite event of an envelope of conversation C has been handled,
\* activeConversation is C and hasFloor is true, whatever they were before.
C3_InviteBindsAndGrants ==
  dispatch.event.eventType = "invite"
    => (_activeConversation = dispatch.conversation /\ _hasFloor = TRUE)

C3_Witness ==
  /\ dispatch.event.eventType = "invite"
  /\ dispatch.before.activeConversation = Null
  /\ dispatch.before.hasFloor = FALSE
  /\ _activeConversation = dispatch.conversation
  /\ _hasFloor

\* C4: once a grantFloor event has been handled hasFloor is true, once a
\* revokeFloor event has been handled hasFloor is false, and neither changes
\* activeConversation.
C4_FloorFlag ==
  /\ dispatch.event.eventType = "grantFloor"
       => (_hasFloor = TRUE /\ _activeConversation = dispatch.before.activeConversation)
  /\ dispatch.event.eventType = "revokeFloor"
       => (_hasFloor = FALSE /\ _activeConversation = dispatch.before.activeConversation)

C4_Witness ==
  /\ dispatch.event.eventType = "revokeFloor"
  /\ dispatch.before.hasFloor
  /\ dispatch.before.activeConversation # Null
  /\ ~_hasFloor
  /\ _activeConversation = dispatch.before.activeConversation

\* C5: once an uninvite event has been handled, activeConversation is null and
\* hasFloor is false, whatever they were before.
C5_UninviteLeaves ==
  dispatch.event.eventType = "uninvite"
    => (_activeConversation = Null /\ _hasFloor = FALSE)

C5_Witness ==
  /\ dispatch.event.eventType = "uninvite"
  /\ dispatch.before.hasFloor
  /\ dispatch.before.activeConversation # Null
  /\ _activeConversation = Null
  /\ ~_hasFloor

\* C6: the outbound envelope processEnvelope returns holds one utterance event of
\* the agent for every utterance event addressed to it in the inbound envelope.
C6_UtteranceAnswered ==
  (call.returned /\ ~ConflictFired)
    => Count(call.outEnvelope.events, "utterance")
         = Len(SelectSeq(call.inEnvelope.events, IsAddressedUtterance))

\* C7: the outbound envelope processEnvelope returns holds one publishManifests
\* event for every getManifests event addressed to the agent in the inbound
\* envelope.
C7_ManifestPublished ==
  (call.returned /\ ~ConflictFired)
    => Count(call.outEnvelope.events, "publishManifests")
         = Len(SelectSeq(call.inEnvelope.events, IsAddressedGetManifests))

\* C8: when processEnvelope returns, currentContext is the sequence of the context
\* events addressed to the agent in the inbound envelope of that call, in array
\* order.
C8_ContextBuffer ==
  (call.returned /\ ~ConflictFired)
    => call.seen.state.currentContext
         = SelectSeq(call.inEnvelope.events, IsAddressedContext)

\* C9: the agent handles an inbound event if and only if the event is addressed
\* to it: once the listener of a call is over, the events it handled are the
\* addressed events of the inbound envelope, all of them and in array order.
C9_HandlesExactlyAddressed ==
  (call.handler \in {"fulfilled", "rejected"} /\ ~ConflictFired)
    => call.handled = SelectSeq(call.inEnvelope.events, AddressedToAgent)

\* C10: handling a declineInvite, bye, publishManifests, requestFloor or yieldFloor
\* event throws nothing, leaves hasFloor, activeConversation and currentContext as
\* they were and adds nothing to the outbound envelope.
C10_OtherTagsIgnored ==
  dispatch.event.eventType
      \in {"declineInvite", "bye", "publishManifests", "requestFloor", "yieldFloor"}
    => /\ dispatch.error = NoError
       /\ bot = dispatch.before
       /\ dispatch.outAfter = dispatch.outBefore

C10_Witness ==
  /\ dispatch.event.eventType = "bye"
  /\ dispatch.before.hasFloor
  /\ dispatch.before.activeConversation # Null
  /\ dispatch.before.currentContext # <<>>
  /\ bot = dispatch.before

\* The per-tag transitions of the bot as the specification states them.
Transition(s, e, conversation) ==
  IF e.eventType = "invite"
    THEN [s EXCEPT !.activeConversation = conversation, !.hasFloor = TRUE]
  ELSE IF e.eventType = "uninvite"
    THEN [s EXCEPT !.activeConversation = Null, !.hasFloor = FALSE]
  ELSE IF e.eventType = "grantFloor" THEN [s EXCEPT !.hasFloor = TRUE]
  ELSE IF e.eventType = "revokeFloor" THEN [s EXCEPT !.hasFloor = FALSE]
  ELSE IF e.eventType = "context" THEN [s EXCEPT !.currentContext = Append(@, e)]
  ELSE s

RECURSIVE Fold(_, _, _)
Fold(s, events, conversation) ==
  IF events = <<>> THEN s
  ELSE Fold(Transition(s, Head(events), conversation), Tail(events), conversation)

\* C11: the events of one inbound envelope that are addressed to the agent are
\* handled in array order, so that the agent state the host finds when its
\* processEnvelope call returns is the left-to-right fold of the per-tag
\* transitions over those events, from the state the call started in.
C11_DispatchOrder ==
  (call.returned /\ ~ConflictFired)
    => call.seen.state
         = Fold(call.start, SelectSeq(call.inEnvelope.events, AddressedToAgent),
                call.inEnvelope.conversation)

----------------------------------------------------------------------------
(* Properties of the ConvenerAgent *)

\* The tag of the event each method is to build.
TagOf(method) ==
  IF method = "uninviteAgent" THEN "uninvite"
  ELSE IF method = "inviteAgent" THEN "invite"
  ELSE method

\* C15: grantFloor, revokeFloor, uninviteAgent and inviteAgent leave hasFloor,
\* activeConversation and currentContext of the convener as they were, and, when
\* they are given a target (a speakerUri; for inviteAgent a serviceUrl), return an
\* event of the matching tag that is addressed to that target.
C15_ConvenerBuildsOnly ==
  built.method # "none"
    => /\ bot = built.before
       /\ (built.method # "inviteAgent" /\ built.speakerUri # "")
            => /\ built.error = NoError
               /\ built.event.eventType = TagOf(built.method)
               /\ built.event.to = To(built.speakerUri, Undefined)
       /\ (built.method = "inviteAgent" /\ built.serviceUrl # "")
            => /\ built.error = NoError
               /\ built.event.eventType = "invite"
               /\ built.event.to = To(built.speakerUri, built.serviceUrl)

C15_Witness ==
  /\ built.method = "grantFloor"
  /\ built.event = Event("grantFloor", To(OtherSpeakerUri, Undefined))
  /\ _hasFloor
  /\ _activeConversation # Null
  /\ _currentContext # <<>>

----------------------------------------------------------------------------
(* Properties of the FloorManager *)

\* Whether the sequence a is embedded in the sequence b: b holds the elements of
\* a, in the order of a.
RECURSIVE Embeds(_, _)
Embeds(a, b) ==
  IF a = <<>> THEN TRUE
  ELSE IF b = <<>> THEN FALSE
  ELSE IF Head(a) = Head(b) THEN Embeds(Tail(a), Tail(b))
  ELSE Embeds(a, Tail(b))

\* C12: the events of the outbound envelope that FloorManager.processEnvelope
\* returns hold every event of the inbound envelope, unchanged and in inbound
\* order, whatever the events' addressing.
C12_RelaysEveryEvent ==
  call.returned => Embeds(call.inEnvelope.events, call.outEnvelope.events)

\* C13: forwarding a requestFloor event adds to the outbound events a grantFloor
\* event addressed to the sender of the inbound envelope and, right after it, the
\* requestFloor event; currentSpeaker is then the sender's speakerUri.
C13_RequestFloorGranted ==
  dispatch.event.eventType = "requestFloor"
    => /\ dispatch.outAfter.events
            = dispatch.outBefore.events
                \o <<GrantFloorEvent(To(dispatch.sender, Undefined)), dispatch.event>>
       /\ _currentSpeaker = dispatch.sender

\* C14: once the floor manager has handled a bye event of an envelope sent by S,
\* S is no key of activeConversants, every other entry is as before, and
\* currentSpeaker is null if it was S and otherwise as before.
C14_ByeRemovesSender ==
  dispatch.event.eventType = "bye"
    => /\ dispatch.sender \notin _activeConversants
       /\ _activeConversants = dispatch.before.activeConversants \ {dispatch.sender}
       /\ _currentSpeaker = IF dispatch.before.currentSpeaker = dispatch.sender
                              THEN Null
                              ELSE dispatch.before.currentSpeaker

C14_Witness ==
  /\ dispatch.event.eventType = "bye"
  /\ dispatch.before.currentSpeaker = dispatch.sender
  /\ dispatch.before.activeConversants = Senders
  /\ _activeConversants = Senders \ {dispatch.sender}
  /\ _currentSpeaker = Null

----------------------------------------------------------------------------
(* Properties of the value objects *)

\* C17: for every constructed Envelope, Event, DialogEvent and Manifest x,
\* fromObject(toObject(x)) succeeds and renders the same plain object as x.
C17_RoundTrip ==
  outcome.stage = "restored"
    => /\ outcome.restored.error = NoError
       /\ outcome.restored.value = outcome.rendered.value

----------------------------------------------------------------------------
(* Properties of the SimpleValidator *)

\* C18: validate never raises: whatever the data and the schema, a schema with a
\* pattern that is no regular expression included, it returns a result, and the
\* result is valid exactly when its errors are empty.
C18_ValidateNeverRaises ==
  outcome.stage = "validated" =>
    /\ outcome.raised = NoError
    /\ outcome.valid <=> outcome.errors = <<>>

\* A malformed pattern was met, and the result reports it as an error.
C18_Witness ==
  /\ outcome.stage = "validated"
  /\ subject.schema \in MalformedSchemas
  /\ ~outcome.valid
  /\ \E i \in 1..Len(outcome.errors) :
       outcome.errors[i] = Err(<<>>, "Validation error", InvalidRegExp)

\* The key is in the data with a value other than undefined.
Present(key, data) == In(key, data) /\ Get(data, key).type # "undefined"

\* C19: under a schema of type object with a non-empty required list, the result
\* is valid only if the data is a non-null object that has every required key
\* with a value other than undefined; every required key an object lacks is named
\* by one of the errors.
C19_RequiredKeys ==
  (outcome.stage = "validated" /\ subject.schema \in RequiredSchemas) =>
    /\ outcome.valid =>
         /\ IsObject(subject.data)
         /\ \A i \in 1..Len(subject.schema.required) :
              Present(subject.schema.required[i], subject.data)
    /\ IsObject(subject.data) =>
         \A i \in 1..Len(subject.schema.required) :
           ~Present(subject.schema.required[i], subject.data) =>
             \E k \in 1..Len(outcome.errors) :
               /\ outcome.errors[k].message = "missing required property"
               /\ outcome.errors[k].detail = subject.schema.required[i]

\* The one error anyOf reports at a path.
NoBranch(path) == Err(path, "value does not match any of the allowed schemas", "")

\* The errors a branch finds in the data, in an array of its own.
BranchErrors(data, branch, path) ==
  _validateObject(data, branch, path, Errors(<<>>, NoError)).errors

\* C20: anyOf reports nothing when some branch finds no error in the data, and
\* otherwise reports one error for the path; the errors the branches found are
\* not in the result.
C20_AnyOfAggregates ==
  /\ (outcome.stage = "validated" /\ subject.schema \in AnyOfSchemas) =>
       outcome.errors =
         IF \E i \in 1..Len(subject.schema.anyOf) :
              BranchErrors(subject.data, subject.schema.anyOf[i], <<>>) = <<>>
           THEN <<>>
           ELSE <<NoBranch(<<>>)>>
  /\ (outcome.stage = "validated" /\ subject.schema = NestedAnyOfSchema
        /\ In("speakerUri", subject.data)) =>
       outcome.errors =
         IF \E i \in 1..Len(NestedAnyOfSchema.properties[1].value.anyOf) :
              BranchErrors(Get(subject.data, "speakerUri"),
                           NestedAnyOfSchema.properties[1].value.anyOf[i],
                           <<"speakerUri">>) = <<>>
           THEN <<>>
           ELSE <<NoBranch(<<"speakerUri">>)>>

\* Every branch found errors in the data, and the result holds the one error.
C20_Witness ==
  /\ outcome.stage = "validated"
  /\ subject.schema \in AnyOfSchemas
  /\ Len(subject.schema.anyOf) = 2
  /\ \A i \in 1..2 : BranchErrors(subject.data, subject.schema.anyOf[i], <<>>) # <<>>
  /\ outcome.errors = <<NoBranch(<<>>)>>

----------------------------------------------------------------------------
(* Properties of the event classes *)

\* The twelve tags of the protocol.
RecognizedTags ==
  {"utterance", "context", "invite", "uninvite", "declineInvite", "bye", "getManifests",
   "publishManifests", "requestFloor", "grantFloor", "revokeFloor", "yieldFloor"}

\* C21: given well-formed parameters, new Event, Event.fromObject and createEvent
\* each succeed for the twelve recognized tags and fail for a missing eventType
\* and for every other string, so the three accept the same set.
C21_RecognizedTags ==
  outcome.stage = "called" =>
    (outcome.error = NoError <=> subject.eventType \in RecognizedTags)

\* The event types of the event-construction tests.
TestedEventTypes ==
  {"utterance", "context", "invite", "uninvite", "declineInvite", "bye", "getManifests",
   "publishManifest", "requestFloor", "grantFloor", "revokeFloor", "yieldFloor"}

\* C22: for every tested event type, new Event({eventType, to, reason}) succeeds,
\* and toObject() reports the eventType, the to.speakerUri, the to.private and the
\* reason it was given.
C22_ConstructionPreserves ==
  (outcome.stage = "called" /\ outcome.entry = "new Event"
     /\ subject.eventType \in TestedEventTypes) =>
    /\ outcome.error = NoError
    /\ outcome.rendered.eventType = subject.eventType
    /\ outcome.rendered.to.speakerUri = subject.to.speakerUri
    /\ (outcome.rendered.to.private = "true") <=> (subject.to.private = "true")
    /\ outcome.rendered.reason = subject.reason

----------------------------------------------------------------------------
(* Properties of the floor and of the participants *)

\* C23: from any holder, a grantFloor addressed to X makes X the holder, a
\* revokeFloor addressed to X clears the holder when it is X and leaves it
\* otherwise, and a requestFloor leaves the holder as it is.
C23_FloorHolder ==
  dispatch.event # NoEvent =>
    /\ (dispatch.event.eventType = "grantFloor" /\ ~dispatch.event.to.absent)
         => _currentSpeaker = dispatch.event.to.speakerUri
    /\ (dispatch.event.eventType = "revokeFloor" /\ ~dispatch.event.to.absent)
         => _currentSpeaker = IF dispatch.before.currentSpeaker = dispatch.event.to.speakerUri
                                THEN Null ELSE dispatch.before.currentSpeaker
    /\ dispatch.event.eventType = "requestFloor"
         => _currentSpeaker = dispatch.before.currentSpeaker

\* How many entries of the array are the uri.
Entered(state, uri) == Cardinality({i \in 1..Len(state) : state[i] = uri})

\* C24: an invite addressed to A leaves A in the participant set, once, also when
\* A was in it; an uninvite addressed to A and a bye from A leave A out of it; an
\* uninvite for an agent that is not in the set leaves the set as it was.
C24_TrackedParticipants ==
  \A a \in Agents :
    /\ outcome.applied = Applied(Event("invite", To(a, Undefined)), Undefined)
         => Entered(outcome.state, a) = 1
    /\ outcome.applied \in {Applied(Event("uninvite", To(a, Undefined)), Undefined),
                            Applied(Event("bye", NoTo), a)}
         => Entered(outcome.state, a) = 0
    /\ (outcome.applied = Applied(Event("uninvite", To(a, Undefined)), Undefined)
          /\ Entered(outcome.before, a) = 0)
         => outcome.state = outcome.before

\* An agent that was in the set is invited once more, and the set is as it was.
C24_Witness ==
  /\ outcome.applied = Applied(Event("invite", To(OtherSpeakerUri, Undefined)), Undefined)
  /\ Entered(outcome.before, OtherSpeakerUri) = 1
  /\ Len(outcome.before) = 2
  /\ outcome.state = outcome.before

----------------------------------------------------------------------------
(* Properties of the schemas *)

----------------------------------------------------------------------------
(* Properties of the spans and of the durations *)

Given(x) == x # Absent

\* C26: new Span fails when startTime and startOffset are both given and when
\* endTime and endOffset are both given; when neither start is given the start
\* time is the time of construction; a span that is constructed has exactly one
\* of startTime and startOffset and at most one of endTime and endOffset.
C26_SpanInvariant ==
  outcome.stage = "constructed" =>
    LET span == outcome.result.value
        failed == outcome.result.error # NoError
    IN  /\ (Given(subject.startTime) /\ Given(subject.startOffset)) => failed
        /\ (Given(subject.endTime) /\ Given(subject.endOffset)) => failed
        /\ (~failed /\ ~Given(subject.startTime) /\ ~Given(subject.startOffset))
             => span.startTime = Now
        /\ ~failed => /\ Given(span.startTime) # Given(span.startOffset)
                      /\ ~(Given(span.endTime) /\ Given(span.endOffset))

\* A span has been constructed from options without a start and with an end
\* offset of zero.
C26_Witness ==
  /\ outcome.stage = "constructed"
  /\ outcome.result.error = NoError
  /\ ~Given(subject.startTime) /\ ~Given(subject.startOffset)
  /\ subject.endOffset = Number(0)
  /\ outcome.result.value.startTime = Now

\* C27: for every non-negative number of milliseconds n, whole seconds or not,
\* a day or more included, parseIsoDuration(millisecondsToIsoDuration(n)) = n.
C27_DurationRoundTrip ==
  outcome.stage = "parsed" => outcome.result = Return(subject)

\* The round trip restores every whole number of seconds.
C27_WholeSeconds ==
  (outcome.stage = "parsed" /\ subject.n % 1000 = 0) => outcome.result = Return(subject)

\* What the round trip gives in general: the whole seconds of n.
C27_FlooredToSeconds ==
  outcome.stage = "parsed" => outcome.result = Return(Number((subject.n \div 1000) * 1000))

----------------------------------------------------------------------------
(* Properties of the completion of a call and of the floor *)

IsListener(j) == j.job \in {"_handleEnvelope", "FloorManager._handleEnvelope"}

C29_FloorImpliesConversation ==
  _hasFloor => _activeConversation # Null

\* C30: in every state a FloorManager reaches by addConversant, removeConversant
\* and processEnvelope calls, currentSpeaker is null or the speakerUri of an
\* entry of activeConversants.
C30_SpeakerIsConversant ==
  _currentSpeaker = Null \/ _currentSpeaker \in _activeConversants

====
